---------------------------- MODULE Spec2Model ----------------------------
(***************************************************************************)
(* paybot-sdk: PayBotClient.pay (two-phase verify/settle exchange with the *)
(* facilitator), buildPaymentPayload, usdToBaseUnits and the x402          *)
(* auto-pay handler (createX402Handler.fetch, parse402Response).           *)
(*                                                                         *)
(* Conventions of the model                                                *)
(*  - A JavaScript string that the code splits, pads, parses or formats is *)
(*    a sequence of one-character strings (<<"1", ".", "5">>); every other *)
(*    string is a TLA+ string.  Str(cs) joins characters into a string.    *)
(*  - undefined / null are the strings "<undefined>" / "<null>".           *)
(*  - A JavaScript number is [nan, mant, exp]: the decimal mant * 10^exp   *)
(*    (exp <= 0), or NaN.  Decimal arithmetic is exact in the model; the   *)
(*    binary rounding of IEEE doubles is outside it.                       *)
(*  - An object literal is a record with exactly the keys the code writes. *)
(***************************************************************************)
EXTENDS Integers, Sequences, FiniteSets, TLC

undefined == "<undefined>"
null == "<null>"

(* x ?? y *)
Nullish(x) == x = undefined \/ x = null
Coalesce(x, y) == IF Nullish(x) THEN y ELSE x

(***************************************************************************)
(* Characters, strings and numbers                                         *)
(***************************************************************************)
DigitChars == <<"0", "1", "2", "3", "4", "5", "6", "7", "8", "9">>
IsDigit(c) == \E i \in 1..10 : DigitChars[i] = c
DigitVal(c) == (CHOOSE i \in 1..10 : DigitChars[i] = c) - 1
AllDigits(cs) == \A i \in 1..Len(cs) : IsDigit(cs[i])

RECURSIVE Str(_)
Str(cs) == IF cs = <<>> THEN "" ELSE Head(cs) \o Str(Tail(cs))

RECURSIVE Pow10(_)
Pow10(k) == IF k <= 0 THEN 1 ELSE 10 * Pow10(k - 1)

RECURSIVE DigitsToNat(_)
DigitsToNat(cs) ==
    IF cs = <<>> THEN 0
    ELSE 10 * DigitsToNat(SubSeq(cs, 1, Len(cs) - 1)) + DigitVal(cs[Len(cs)])

RECURSIVE NatToChars(_)
NatToChars(n) ==
    IF n < 10 THEN <<DigitChars[n + 1]>>
    ELSE NatToChars(n \div 10) \o <<DigitChars[(n % 10) + 1]>>

Abs(n) == IF n < 0 THEN -n ELSE n

(* Position of the first c in cs, or 0 *)
IndexOf(cs, c) ==
    IF \E i \in 1..Len(cs) : cs[i] = c
    THEN CHOOSE i \in 1..Len(cs) : cs[i] = c /\ \A j \in 1..(i - 1) : cs[j] # c
    ELSE 0

(* String.prototype.split('.') *)
RECURSIVE SplitDot(_)
SplitDot(cs) ==
    LET i == IndexOf(cs, ".")
    IN  IF i = 0 THEN <<cs>>
        ELSE <<SubSeq(cs, 1, i - 1)>> \o SplitDot(SubSeq(cs, i + 1, Len(cs)))

(* String.prototype.padEnd(n, '0') *)
RECURSIVE PadEndZero(_, _)
PadEndZero(cs, n) == IF Len(cs) >= n THEN cs ELSE PadEndZero(cs \o <<"0">>, n)

(* String.prototype.padStart(n, '0') *)
RECURSIVE PadStartZero(_, _)
PadStartZero(cs, n) == IF Len(cs) >= n THEN cs ELSE PadStartZero(<<"0">> \o cs, n)

(* String.prototype.slice(0, n) *)
SliceTo(cs, n) == SubSeq(cs, 1, IF Len(cs) < n THEN Len(cs) ELSE n)

(* String.prototype.replace(/^0+/, '') *)
RECURSIVE StripLeadingZeros(_)
StripLeadingZeros(cs) ==
    IF cs # <<>> /\ Head(cs) = "0" THEN StripLeadingZeros(Tail(cs)) ELSE cs

NaN == [nan |-> TRUE, mant |-> 0, exp |-> 0]
Num(m, e) == [nan |-> FALSE, mant |-> m, exp |-> e]

(* An unsigned decimal literal: digits, digits '.', digits '.' digits, '.' digits *)
IsUnsignedDecimal(cs) ==
    LET parts == SplitDot(cs)
    IN  /\ Len(parts) \in {1, 2}
        /\ \A i \in 1..Len(parts) : AllDigits(parts[i])
        /\ Len(cs) - (Len(parts) - 1) > 0

UnsignedDecimal(cs) ==
    LET parts == SplitDot(cs)
        frac  == IF Len(parts) = 2 THEN parts[2] ELSE <<>>
    IN  Num(DigitsToNat(parts[1] \o frac), -Len(frac))

(* Number(string): '' is 0; an optionally signed decimal literal is its    *)
(* value; any other text is NaN.  (Whitespace, exponents, hex literals and *)
(* Infinity are not in the alphabet of the model's inputs.)                *)
Number(cs) ==
    IF cs = <<>> THEN Num(0, 0)
    ELSE LET signed == Head(cs) \in {"-", "+"}
             body   == IF signed THEN Tail(cs) ELSE cs
         IN  IF ~IsUnsignedDecimal(body) THEN NaN
             ELSE LET v == UnsignedDecimal(body)
                  IN  IF Head(cs) = "-" THEN Num(-v.mant, v.exp) ELSE v

(* x / 1e6 *)
DivMillion(x) == IF x.nan THEN NaN ELSE Num(x.mant, x.exp - 6)

Min(a, b) == IF a < b THEN a ELSE b

(* a > b (false when either is NaN) *)
GreaterThan(a, b) ==
    /\ ~a.nan
    /\ ~b.nan
    /\ LET e == Min(a.exp, b.exp)
       IN  a.mant * Pow10(a.exp - e) > b.mant * Pow10(b.exp - e)

(* Number.prototype.toFixed(f): "NaN" for NaN; otherwise the integer n     *)
(* nearest to |x| * 10^f (the larger on a tie) written with f fraction     *)
(* digits, with a leading '-' when x < 0.                                  *)
ToFixed(x, f) ==
    IF x.nan THEN <<"N", "a", "N">>
    ELSE LET a  == Abs(x.mant)
             k  == x.exp + f
             n  == IF k >= 0 THEN a * Pow10(k)
                   ELSE (a + (Pow10(-k) \div 2)) \div Pow10(-k)
             ds == PadStartZero(NatToChars(n), f + 1)
             ip == SubSeq(ds, 1, Len(ds) - f)
             fp == SubSeq(ds, Len(ds) - f + 1, Len(ds))
         IN  (IF x.mant < 0 THEN <<"-">> ELSE <<>>)
             \o ip \o (IF f > 0 THEN <<".">> \o fp ELSE <<>>)

(* BigInt(string): defined for '' and optionally signed digit strings; a   *)
(* SyntaxError is thrown for anything else.                                *)
BigIntParses(cs) ==
    \/ cs = <<>>
    \/ /\ Head(cs) \in {"-", "+"}
       /\ Len(cs) > 1
       /\ AllDigits(Tail(cs))
    \/ AllDigits(cs)

BigInt(cs) ==
    IF cs = <<>> THEN 0
    ELSE IF Head(cs) = "-" THEN -DigitsToNat(Tail(cs))
    ELSE IF Head(cs) = "+" THEN DigitsToNat(Tail(cs))
    ELSE DigitsToNat(cs)

(* BigInt.prototype.toString() *)
BigIntToString(n) == (IF n < 0 THEN <<"-">> ELSE <<>>) \o NatToChars(Abs(n))

(***************************************************************************)
(* PayBotClient.usdToBaseUnits                                             *)
(***************************************************************************)
(* usdToBaseUnits without the padEnd(6, '0') *)
usdToBaseUnitsUnpadded(usdAmount) ==
    LET parts    == SplitDot(usdAmount)
        whole    == parts[1]
        fraction == SliceTo(IF Len(parts) >= 2 THEN parts[2] ELSE <<>>, 6)
        stripped == StripLeadingZeros(whole \o fraction)
    IN  IF stripped = <<>> THEN <<"0">> ELSE stripped

usdToBaseUnits(usdAmount) ==
    LET parts    == SplitDot(usdAmount)
        whole    == parts[1]
        fraction == SliceTo(PadEndZero(IF Len(parts) >= 2 THEN parts[2] ELSE <<>>, 6), 6)
        stripped == StripLeadingZeros(whole \o fraction)
    IN  IF stripped = <<>> THEN <<"0">> ELSE stripped


(***************************************************************************)
(* Bounds of the model                                                     *)
(***************************************************************************)
(* Date.now() / 1000 ranges over 0..MaxNow *)
MaxNow == 1
(* randomBytes(32) ranges over 0..MaxNonce *)
MaxNonce == 1
(* The amounts a challenge quotes in its header have at most               *)
(* MaxQuotedDigits digits                                                  *)
MaxQuotedDigits == 5
(* The decimal strings handed to usdToBaseUnits have at most MaxWholeDigits *)
(* digits before the radix point and MaxFractionDigits after it            *)
MaxWholeDigits == 2
MaxFractionDigits == 7

(***************************************************************************)
(* Values exchanged with the outside                                       *)
(***************************************************************************)
(* An optional object-valued JSON member *)
None == [present |-> FALSE]
Some(v) == [present |-> TRUE, value |-> v]

(* A thrown value: an Error with a message, a bare string, or anything else *)
ErrorOf(msg) == [type |-> "Error", message |-> msg]
ThrownValues ==
    { ErrorOf("fetch failed"),
      [type |-> "string", message |-> "boom"],
      [type |-> "other", message |-> ""] }

getErrorMessage(error) ==
    IF error.type = "Error" THEN error.message
    ELSE IF error.type = "string" THEN error.message
    ELSE "Unknown error"

(* The members a facilitator JSON body may carry; an absent member reads   *)
(* as undefined.                                                           *)
EmptyObject ==
    [ error |-> undefined, code |-> undefined, details |-> undefined,
      settlementToken |-> undefined, commission |-> None,
      modifiedRequirements |-> None,
      transaction |-> undefined, network |-> undefined ]

FullCommission ==
    [ grossAmount |-> "10000", netAmount |-> "9900", commissionAmount |-> "100",
      commissionRate |-> <<"0", ".", "0", "1">> ]
PartialCommission ==
    [ grossAmount |-> "10000", netAmount |-> undefined, commissionAmount |-> null,
      commissionRate |-> <<"a">> ]
undefinedChars == <<undefined>>

ModifiedRequirements ==
    [ scheme |-> "exact", network |-> "eip155:8453",
      asset |-> "eip155:8453/erc20:0x833589fCD6eDb6E08f4c7C32D4f71b54bdA02913",
      amount |-> <<"9", "9", "0", "0">>, payTo |-> "0xFacilitatorPayee",
      maxTimeoutSeconds |-> 60 ]

(* A response body: text that is not JSON, the JSON value null, or an object *)
Undecodable == [kind |-> "undecodable"]
JsonNull == [kind |-> "null"]
JsonObject(o) == [kind |-> "object", value |-> o]

FacilitatorBodies ==
    { Undecodable, JsonNull, JsonObject(EmptyObject),
      JsonObject([EmptyObject EXCEPT !.error = "Spending limit exceeded",
                                     !.code = "TRUST_VIOLATION",
                                     !.details = "gate:SPENDING_ENVELOPE"]),
      JsonObject([EmptyObject EXCEPT !.error = null, !.code = null]),
      JsonObject([EmptyObject EXCEPT !.settlementToken = ""]),
      JsonObject([EmptyObject EXCEPT !.settlementToken = "tokA"]),
      JsonObject([EmptyObject EXCEPT !.settlementToken = "tokB",
                                     !.commission = Some(FullCommission),
                                     !.modifiedRequirements = Some(ModifiedRequirements)]),
      JsonObject([EmptyObject EXCEPT !.settlementToken = "tokC",
                                     !.commission = Some(PartialCommission)]),
      JsonObject([EmptyObject EXCEPT !.transaction = "0xTX1",
                                     !.network = "eip155:84532"]),
      JsonObject([EmptyObject EXCEPT !.network = "eip155:84532"]) }

(* What one fetch() to the facilitator can do: reject, or resolve with a   *)
(* status and a body (any body may come with either status)                *)
Rejects == { [kind |-> "reject", error |-> e] : e \in ThrownValues }
FacilitatorOutcomes ==
    Rejects \cup
    { [kind |-> "response", status |-> st, body |-> b] :
        st \in {200, 500}, b \in FacilitatorBodies }

(* Response.ok *)
Ok(response) == response.status \in 200..299

(***************************************************************************)
(* networks: EIP712_DOMAINS                                                *)
(***************************************************************************)
(* NETWORKS: the token contract registered for each chain *)
NETWORKS ==
    [ n \in {"eip155:8453", "eip155:84532"} |->
        IF n = "eip155:8453"
        THEN [ chainId |-> 8453,
               usdcAddress |-> "0x833589fCD6eDb6E08f4c7C32D4f71b54bdA02913" ]
        ELSE [ chainId |-> 84532,
               usdcAddress |-> "0x036CbD53842c5426634e7929541eC2318f3dCF7e" ] ]

EIP712_DOMAINS ==
    [ n \in {"eip155:84532", "eip155:8453"} |->
        IF n = "eip155:84532"
        THEN [ name |-> "USDC", version |-> "2", chainId |-> 84532,
               verifyingContract |-> "0x036CbD53842c5426634e7929541eC2318f3dCF7e" ]
        ELSE [ name |-> "USDC", version |-> "2", chainId |-> 8453,
               verifyingContract |-> "0x833589fCD6eDb6E08f4c7C32D4f71b54bdA02913" ] ]

(***************************************************************************)
(* Control results of a piece of code: it throws, it returns, or it goes   *)
(* on to send a request.                                                   *)
(***************************************************************************)
Throw(e) == [kind |-> "throw", error |-> e]
Return(v) == [kind |-> "return", value |-> v]
Send(req, keep) == [kind |-> "send", request |-> req, keep |-> keep]

Zero == Num(0, 0)

(* The object literal of every failure return of pay that has no server data *)
FailedResult(message) ==
    [ success |-> FALSE, grossAmount |-> "0", netAmount |-> "0",
      commissionAmount |-> "0", commissionRate |-> Zero, error |-> message ]

(* HttpFailedResult with the amount members left out *)
HttpFailedResultWithoutAmounts(errorData, fallback) ==
    [ success |-> FALSE,
      error |-> Coalesce(errorData.error, fallback),
      errorCode |-> Coalesce(errorData.code, undefined),
      errorDetails |-> errorData.details ]

(* The object literal returned on a non-success HTTP status *)
HttpFailedResult(errorData, fallback) ==
    [ success |-> FALSE, grossAmount |-> "0", netAmount |-> "0",
      commissionAmount |-> "0", commissionRate |-> Zero,
      error |-> Coalesce(errorData.error, fallback),
      errorCode |-> Coalesce(errorData.code, undefined),
      errorDetails |-> errorData.details ]

(* await response.json().catch(() => ({})), then the failure literal: an   *)
(* undecodable body reads as {}; a JSON null has no members to read.       *)
HttpFailure(response, fallback) ==
    IF response.body.kind = "undecodable"
    THEN Return(HttpFailedResult(EmptyObject, fallback))
    ELSE IF response.body.kind = "null"
    THEN Throw(ErrorOf("Cannot read properties of null (reading 'error')"))
    ELSE Return(HttpFailedResult(response.body.value, fallback))

(* await response.json() of a success response *)
ReadJson(response) ==
    IF response.body.kind = "undecodable"
    THEN Throw(ErrorOf("Unexpected token < in JSON"))
    ELSE IF response.body.kind = "null"
    THEN Throw(ErrorOf("Cannot read properties of null"))
    ELSE Return(response.body.value)

(***************************************************************************)
(* State                                                                   *)
(***************************************************************************)
VARIABLES
    client,       \* this.config of the PayBotClient
    hconfig,      \* what the handler closes over (maxAutoPay, config.network);
                  \* None when the client was constructed without a handler
    payState,     \* where the pay() attempt stands
    payTrace,     \* the protocol states the attempt went through, in order
    frame,        \* the locals pay() keeps across its awaits
    payResult,    \* the PaymentResult pay() returned, if it has returned
    payRaised,    \* the error pay() raised to its caller, if any
    sent,         \* the requests sent to the facilitator, in order
    received,     \* the outcomes of those requests, in order
    hpc,          \* where the handler.fetch call stands
    hcall,        \* the arguments of handler.fetch: url and init
    resourceLog,  \* the requests made to the resource, in order
    firstResponse,\* the response to the original request, as it arrived
    retryResponse,\* the response to the retried request, as it arrived
    hReturned,    \* the Response handler.fetch returned
    hThrown,      \* the error handler.fetch raised
    payCalls,     \* the number of client.pay invocations made by the handler
    attempts,     \* concurrent pay() attempts on one client: the locals, requests
                  \* sent, outcomes received and result of each
    clock,        \* Math.floor(Date.now() / 1000)
    draws,        \* the values randomBytes(32) has returned, in order
    usdAmount,    \* the argument of a call of usdToBaseUnits
    baseUnits,    \* what that call returned
    api,          \* a call of balance, history, setLimits, register or health:
                  \* where it stands, the request it sent, what it returned or raised
    wrapper       \* the client of client.ts and one call of its request wrapper:
                  \* the timer, the abort signal, the time elapsed, the result

payVars == <<payState, payTrace, frame, payResult, payRaised, sent, received>>
handlerVars == <<hpc, hcall, resourceLog, firstResponse, retryResponse, hReturned,
                 hThrown, payCalls>>
concurrentVars == <<attempts, clock, draws>>
conversionVars == <<usdAmount, baseUnits>>
(* What the single pay() attempt and the handler of Spec do not touch *)
auxVars == <<concurrentVars, conversionVars, api, wrapper>>
(* What the other specifications do not touch *)
mainVars == <<hconfig, payVars, handlerVars>>
vars == <<client, hconfig, payState, payTrace, frame, payResult, payRaised, sent,
          received, hpc, hcall, resourceLog, firstResponse, retryResponse, hReturned,
          hThrown, payCalls, attempts, clock, draws, usdAmount, baseUnits, api,
          wrapper>>

Chars1_00 == <<"1", ".", "0", "0">>
Chars0_50 == <<"0", ".", "5", "0">>

(* The PayBotConfig objects a caller constructs a client with *)
Configs ==
    [ apiKey : {"pb_test_key"},
      botId : {"my-bot"},
      facilitatorUrl : {undefined},
      operatorId : {undefined},
      walletPrivateKey : {undefined, "0xKEY"} ]

(* The X402HandlerConfig members a caller adds to create a handler *)
HandlerOptions ==
    [ maxAutoPay : {undefinedChars, Chars0_50},
      network : {undefined, "eip155:8453", "eip155:1"} ]

(* PayBotClient.constructor *)
PayBotClientConstructor(config) ==
    [ apiKey |-> config.apiKey,
      facilitatorUrl |-> Coalesce(config.facilitatorUrl, "http://localhost:3000"),
      botId |-> config.botId,
      operatorId |-> Coalesce(config.operatorId, "default-operator"),
      walletPrivateKey |-> config.walletPrivateKey ]

(* createX402Handler: const maxAutoPay = config.maxAutoPay ?? '1.00' *)
createX402Handler(config) ==
    Some([ maxAutoPay |-> IF config.maxAutoPay = undefinedChars THEN Chars1_00
                          ELSE config.maxAutoPay,
           network |-> config.network ])

NoFrame == [active |-> FALSE]

(* The two pay() calls a caller may have in flight at once *)
Attempts == {"A", "B"}

(* A pay() call that has not been made *)
NoAttempt ==
    [ state |-> "NONE", request |-> None, builtAt |-> None, drawIndex |-> None,
      frame |-> NoFrame, sent |-> <<>>, received |-> <<>>, result |-> None,
      raised |-> None ]

(* No concurrent call of pay has been made *)
ConcurrentIdle ==
    /\ attempts = [a \in Attempts |-> NoAttempt]
    /\ clock = 0
    /\ draws = <<>>

(* usdToBaseUnits is not being called *)
ConversionIdle ==
    /\ usdAmount = <<>>
    /\ baseUnits = None

(* No method other than pay has been called *)
ApiIdle ==
    api = [ pc |-> "idle", method |-> "", request |-> None, outcome |-> None,
            returned |-> None, thrown |-> None ]

(* config.baseUrl.replace(/\/+$/, ''), the URL held as a sequence of pieces *)
RECURSIVE StripTrailingSlashes(_)
StripTrailingSlashes(cs) ==
    IF cs # <<>> /\ cs[Len(cs)] = "/"
    THEN StripTrailingSlashes(SubSeq(cs, 1, Len(cs) - 1))
    ELSE cs

(* new PayBotClient(config) of client.ts, no call made:                    *)
(* this.timeout = config.timeout ?? 30_000                                 *)
WrapperConstructor(config) ==
    [ baseUrl |-> Str(StripTrailingSlashes(config.baseUrl)), apiKey |-> config.apiKey,
      timeout |-> IF config.timeout.present THEN config.timeout.value ELSE 30000,
      pc |-> "idle", timerArmed |-> FALSE, aborted |-> FALSE, elapsed |-> 0,
      init |-> None, response |-> None, returned |-> None, thrown |-> None ]

(* The request wrapper is not in use *)
WrapperIdle ==
    wrapper = WrapperConstructor([ baseUrl |-> <<"https://api.paybot.dev">>,
                                   apiKey |-> "your-api-key", timeout |-> None ])

AuxInit ==
    /\ ConcurrentIdle
    /\ ConversionIdle
    /\ ApiIdle
    /\ WrapperIdle

(* The client, its handler if it has one, and no call made *)
MainInit ==
    /\ \E config \in Configs :
          /\ client = PayBotClientConstructor(config)
          /\ \/ hconfig = None
             \/ \E options \in HandlerOptions : hconfig = createX402Handler(options)
    /\ payState = "NONE"
    /\ payTrace = <<>>
    /\ frame = NoFrame
    /\ payResult = None
    /\ payRaised = None
    /\ sent = <<>>
    /\ received = <<>>
    /\ hpc = "idle"
    /\ hcall = None
    /\ resourceLog = <<>>
    /\ firstResponse = None
    /\ retryResponse = None
    /\ hReturned = None
    /\ hThrown = None
    /\ payCalls = 0

Init == MainInit /\ AuxInit

(***************************************************************************)
(* PayBotClient.buildPaymentPayload                                        *)
(***************************************************************************)
(* privateKeyToAccount(key).address *)
AddressOf(key) == "0xAddressOf:" \o key

(* account.signTypedData: the signature binds signer, domain and message *)
SignTypedData(key, domain, message) ==
    [signer |-> AddressOf(key), domain |-> domain, message |-> message]

(* Buffer.prototype.toString('hex') of a buffer of `bytes` bytes holding n *)
HexChars == <<"0", "1", "2", "3", "4", "5", "6", "7", "8", "9",
              "a", "b", "c", "d", "e", "f">>

RECURSIVE NatToHex(_)
NatToHex(n) ==
    IF n < 16 THEN <<HexChars[n + 1]>>
    ELSE NatToHex(n \div 16) \o <<HexChars[(n % 16) + 1]>>

ToHex(n, bytes) == PadStartZero(NatToHex(n), 2 * bytes)

(* generateEIP3009Nonce handing out one and the same nonce *)
generateEIP3009NonceConstant(randomBytes32) == "0x" \o Str(ToHex(0, 32))

(* generateEIP3009Nonce: `0x${randomBytes(32).toString('hex')}` *)
generateEIP3009Nonce(randomBytes32) == "0x" \o Str(ToHex(randomBytes32, 32))

(* buildPaymentPayload signing under the default domain when the network   *)
(* has none                                                                *)
buildPaymentPayloadDefaultDomain(config, payTo, amountBaseUnits, network, nowSeconds, randomBytes32) ==
    IF config.walletPrivateKey = undefined \/ config.walletPrivateKey = ""
    THEN Return([kind |-> "mock", text |-> "payer:" \o config.botId])
    ELSE IF ~BigIntParses(amountBaseUnits)
    THEN Throw(ErrorOf("Cannot convert " \o Str(amountBaseUnits) \o " to a BigInt"))
    ELSE LET domain      == IF network \in DOMAIN EIP712_DOMAINS
                            THEN EIP712_DOMAINS[network]
                            ELSE EIP712_DOMAINS["eip155:84532"]
             nonce       == generateEIP3009Nonce(randomBytes32)
             validAfter  == 0
             validBefore == nowSeconds + 3600
             value       == BigInt(amountBaseUnits)
             message     == [ from |-> AddressOf(config.walletPrivateKey),
                              to |-> payTo, value |-> value,
                              validAfter |-> validAfter,
                              validBefore |-> validBefore, nonce |-> nonce ]
         IN  Return([ kind |-> "signed",
                      from |-> AddressOf(config.walletPrivateKey),
                      to |-> payTo,
                      value |-> BigIntToString(value),
                      validAfter |-> BigIntToString(validAfter),
                      validBefore |-> BigIntToString(validBefore),
                      nonce |-> nonce,
                      signature |-> SignTypedData(config.walletPrivateKey, domain, message) ])

(* buildPaymentPayload with a window of 300 seconds, the maxTimeoutSeconds *)
(* of the requirements                                                     *)
buildPaymentPayloadShortWindow(config, payTo, amountBaseUnits, network, nowSeconds, randomBytes32) ==
    IF config.walletPrivateKey = undefined \/ config.walletPrivateKey = ""
    THEN Return([kind |-> "mock", text |-> "payer:" \o config.botId])
    ELSE IF network \notin DOMAIN EIP712_DOMAINS
    THEN Throw(ErrorOf("No EIP-712 domain for network: " \o network))
    ELSE IF ~BigIntParses(amountBaseUnits)
    THEN Throw(ErrorOf("Cannot convert " \o Str(amountBaseUnits) \o " to a BigInt"))
    ELSE LET domain      == EIP712_DOMAINS[network]
             nonce       == generateEIP3009Nonce(randomBytes32)
             validAfter  == 0
             validBefore == nowSeconds + 300
             value       == BigInt(amountBaseUnits)
             message     == [ from |-> AddressOf(config.walletPrivateKey),
                              to |-> payTo, value |-> value,
                              validAfter |-> validAfter,
                              validBefore |-> validBefore, nonce |-> nonce ]
         IN  Return([ kind |-> "signed",
                      from |-> AddressOf(config.walletPrivateKey),
                      to |-> payTo,
                      value |-> BigIntToString(value),
                      validAfter |-> BigIntToString(validAfter),
                      validBefore |-> BigIntToString(validBefore),
                      nonce |-> nonce,
                      signature |-> SignTypedData(config.walletPrivateKey, domain, message) ])

buildPaymentPayload(config, payTo, amountBaseUnits, network, nowSeconds, randomBytes32) ==
    IF config.walletPrivateKey = undefined \/ config.walletPrivateKey = ""
    THEN Return([kind |-> "mock", text |-> "payer:" \o config.botId])
    ELSE IF network \notin DOMAIN EIP712_DOMAINS
    THEN Throw(ErrorOf("No EIP-712 domain for network: " \o network))
    ELSE IF ~BigIntParses(amountBaseUnits)
    THEN Throw(ErrorOf("Cannot convert " \o Str(amountBaseUnits) \o " to a BigInt"))
    ELSE LET domain      == EIP712_DOMAINS[network]
             nonce       == generateEIP3009Nonce(randomBytes32)
             validAfter  == 0
             validBefore == nowSeconds + 3600
             value       == BigInt(amountBaseUnits)
             message     == [ from |-> AddressOf(config.walletPrivateKey),
                              to |-> payTo, value |-> value,
                              validAfter |-> validAfter,
                              validBefore |-> validBefore, nonce |-> nonce ]
         IN  Return([ kind |-> "signed",
                      from |-> AddressOf(config.walletPrivateKey),
                      to |-> payTo,
                      value |-> BigIntToString(value),
                      validAfter |-> BigIntToString(validAfter),
                      validBefore |-> BigIntToString(validBefore),
                      nonce |-> nonce,
                      signature |-> SignTypedData(config.walletPrivateKey, domain, message) ])

(***************************************************************************)
(* PayBotClient.pay                                                        *)
(***************************************************************************)
PayloadWrapper(request, payloadString) ==
    [ x402Version |-> 1, resource |-> request.resource, accepted |-> TRUE,
      payload |-> payloadString ]

Requirements(request, network, tokenContract, amountBaseUnits) ==
    [ scheme |-> "exact", network |-> network,
      asset |-> network \o "/erc20:" \o tokenContract,
      amount |-> amountBaseUnits, payTo |-> request.payTo,
      maxTimeoutSeconds |-> 300 ]

JsonHeaders(config) ==
    [ContentType |-> "application/json", XAPIKey |-> config.apiKey]

(* pay, from its entry to the verify fetch *)
PayBegin(config, request, nowSeconds, nonce) ==
    LET network         == Coalesce(request.network, "eip155:84532")
        tokenContract   == Coalesce(request.tokenContract,
                                    "0x036CbD53842c5426634e7929541eC2318f3dCF7e")
        amountBaseUnits == usdToBaseUnits(request.amount)
        built           == buildPaymentPayload(config, request.payTo, amountBaseUnits,
                                               network, nowSeconds, nonce)
    IN  IF built.kind = "throw" THEN built
        ELSE Send([ url |-> config.facilitatorUrl \o "/verify",
                    method |-> "POST",
                    headers |-> JsonHeaders(config),
                    body |-> [ botId |-> config.botId,
                               payload |-> PayloadWrapper(request, built.value),
                               requirements |-> Requirements(request, network,
                                                   tokenContract, amountBaseUnits) ] ],
                  [ active |-> TRUE, request |-> request, network |-> network,
                    tokenContract |-> tokenContract,
                    amountBaseUnits |-> amountBaseUnits,
                    payloadString |-> built.value,
                    verifyData |-> EmptyObject ])

(* Falsy testing for undefined alone *)
FalsyUndefinedOnly(s) == s = undefined

(* !settlementToken *)
Falsy(s) == Nullish(s) \/ s = ""

(* AfterVerify settling on the requirements it sent to verify, whatever    *)
(* the facilitator returned                                                *)
AfterVerifyKeepingRequirements(config, fr, out) ==
    IF out.kind = "reject" THEN Throw(out.error)
    ELSE IF ~Ok(out) THEN HttpFailure(out, "HTTP " \o ToString(out.status))
    ELSE LET read == ReadJson(out)
         IN  IF read.kind = "throw" THEN read
             ELSE LET verifyData      == read.value
                      settlementToken == verifyData.settlementToken
                  IN  IF Falsy(settlementToken)
                      THEN Return(FailedResult("Verify response missing settlement token"))
                      ELSE Send([ url |-> config.facilitatorUrl \o "/settle",
                                  method |-> "POST",
                                  headers |-> JsonHeaders(config),
                                  body |-> [ botId |-> config.botId,
                                             settlementToken |-> settlementToken,
                                             payload |-> PayloadWrapper(fr.request,
                                                            fr.payloadString),
                                             requirements |->
                                                 Requirements(fr.request, fr.network,
                                                        fr.tokenContract, fr.amountBaseUnits),
                                             commission |-> verifyData.commission ] ],
                                [fr EXCEPT !.verifyData = verifyData])

(* pay, from the outcome of the verify fetch to the settle fetch *)
AfterVerify(config, fr, out) ==
    IF out.kind = "reject" THEN Throw(out.error)
    ELSE IF ~Ok(out) THEN HttpFailure(out, "HTTP " \o ToString(out.status))
    ELSE LET read == ReadJson(out)
         IN  IF read.kind = "throw" THEN read
             ELSE LET verifyData      == read.value
                      settlementToken == verifyData.settlementToken
                  IN  IF Falsy(settlementToken)
                      THEN Return(FailedResult("Verify response missing settlement token"))
                      ELSE Send([ url |-> config.facilitatorUrl \o "/settle",
                                  method |-> "POST",
                                  headers |-> JsonHeaders(config),
                                  body |-> [ botId |-> config.botId,
                                             settlementToken |-> settlementToken,
                                             payload |-> PayloadWrapper(fr.request,
                                                            fr.payloadString),
                                             requirements |->
                                                 IF verifyData.modifiedRequirements.present
                                                 THEN verifyData.modifiedRequirements.value
                                                 ELSE Requirements(fr.request, fr.network,
                                                        fr.tokenContract, fr.amountBaseUnits),
                                             commission |-> verifyData.commission ] ],
                                [fr EXCEPT !.verifyData = verifyData])

(* commissionData?.member *)
CommissionMember(commission, member) ==
    IF commission.present THEN commission.value[member] ELSE undefined

(* Number(commissionData?.commissionRate ?? 0) *)
CommissionRate(commission) ==
    IF ~commission.present \/ commission.value.commissionRate = undefinedChars
    THEN Zero
    ELSE Number(commission.value.commissionRate)

SuccessResult(settleData, commissionData) ==
    [ success |-> TRUE,
      txHash |-> settleData.transaction,
      grossAmount |-> Coalesce(CommissionMember(commissionData, "grossAmount"), "0"),
      netAmount |-> Coalesce(CommissionMember(commissionData, "netAmount"), "0"),
      commissionAmount |-> Coalesce(CommissionMember(commissionData, "commissionAmount"), "0"),
      commissionRate |-> CommissionRate(commissionData),
      network |-> settleData.network ]

(* AfterSettle without the test of settleResponse.ok *)
AfterSettleIgnoringStatus(fr, out) ==
    IF out.kind = "reject" THEN Throw(out.error)
    ELSE LET read == ReadJson(out)
         IN  IF read.kind = "throw" THEN read
             ELSE Return(SuccessResult(read.value, fr.verifyData.commission))

(* AfterSettle sending the settle request again when the fetch rejects *)
AfterSettleRetrying(fr, out) ==
    IF out.kind = "reject" THEN Send(sent[Len(sent)], fr)
    ELSE IF ~Ok(out) THEN HttpFailure(out, "Settlement HTTP " \o ToString(out.status))
    ELSE LET read == ReadJson(out)
         IN  IF read.kind = "throw" THEN read
             ELSE Return(SuccessResult(read.value, fr.verifyData.commission))

(* pay, from the outcome of the settle fetch to its return *)
AfterSettle(fr, out) ==
    IF out.kind = "reject" THEN Throw(out.error)
    ELSE IF ~Ok(out) THEN HttpFailure(out, "Settlement HTTP " \o ToString(out.status))
    ELSE LET read == ReadJson(out)
         IN  IF read.kind = "throw" THEN read
             ELSE Return(SuccessResult(read.value, fr.verifyData.commission))

(* PayCatch letting the error through *)
PayCatchRethrowing(outcome) == outcome

(* try { ... } catch (error) { return { success: false, ..., error: getErrorMessage(error) } } *)
PayCatch(outcome) ==
    IF outcome.kind = "throw"
    THEN Return(FailedResult(getErrorMessage(outcome.error)))
    ELSE outcome

(* The effect on pay()'s state of one stretch of its code ending in        *)
(* outcome o: a request sent (and the attempt waiting in sentState), a     *)
(* PaymentResult returned, or an error raised to the caller.  `entered`    *)
(* and `passed` are the protocol states the stretch enters at its start    *)
(* and passes through before it sends.                                     *)
PayAdvance(o, entered, passed, sentState) ==
    /\ payState' = IF o.kind = "send" THEN sentState
                   ELSE IF o.kind = "throw" THEN "RAISED"
                   ELSE IF o.value.success THEN "SETTLED" ELSE "FAILED"
    /\ payTrace' = payTrace \o entered \o
                   (IF o.kind = "send" THEN passed \o <<sentState>>
                    ELSE IF o.kind = "throw" THEN <<"RAISED">>
                    ELSE IF o.value.success THEN <<"SETTLED">> ELSE <<"FAILED">>)
    /\ sent' = IF o.kind = "send" THEN Append(sent, o.request) ELSE sent
    /\ frame' = IF o.kind = "send" THEN o.keep ELSE frame
    /\ payResult' = IF o.kind = "return" THEN Some(o.value) ELSE payResult
    /\ payRaised' = IF o.kind = "throw" THEN Some(o.error) ELSE payRaised

(* client.pay(request) is entered and runs to its first await or return *)
PayEnter(request, nowSeconds, nonce) ==
    /\ payState = "NONE"
    /\ PayAdvance(PayCatch(PayBegin(client, request, nowSeconds, nonce)),
                  <<"INIT">>, <<>>, "VERIFY_SENT")
    /\ received' = received

PaymentRequests ==
    [ resource : {"https://api.example.com/data"},
      amount : { <<"1", "0", ".", "0", "0">>, <<"0", ".", "0", "1">>,
                 <<".", "5">>, <<"0">> },
      payTo : {"0xPayee"},
      tokenContract : {undefined, "0xToken"},
      network : {undefined, "eip155:8453", "eip155:1"} ]

(* A caller invokes client.pay directly *)
CallPay ==
    /\ ~hconfig.present
    /\ \E request \in PaymentRequests, nowSeconds \in 0..MaxNow, nonce \in 0..MaxNonce :
          PayEnter(request, nowSeconds, nonce)
    /\ UNCHANGED <<client, hconfig, handlerVars, auxVars>>

(* The verify fetch settles and pay resumes *)
VerifyResponse ==
    /\ payState = "VERIFY_SENT"
    /\ \E out \in FacilitatorOutcomes :
          /\ PayAdvance(PayCatch(AfterVerify(client, frame, out)),
                        <<>>, <<"VERIFIED">>, "SETTLE_SENT")
          /\ received' = Append(received, out)
    /\ UNCHANGED <<client, hconfig, handlerVars, auxVars>>

(* The settle fetch settles and pay resumes *)
SettleResponse ==
    /\ payState = "SETTLE_SENT"
    /\ \E out \in FacilitatorOutcomes :
          /\ PayAdvance(PayCatch(AfterSettle(frame, out)), <<>>, <<>>, "SETTLE_SENT")
          /\ received' = Append(received, out)
    /\ UNCHANGED <<client, hconfig, handlerVars, auxVars>>

(***************************************************************************)
(* x402-handler: parse402Response                                          *)
(***************************************************************************)
(* A JSON scalar that may be a string or a number: its kind and its text *)
JStr(cs) == [t |-> "string", s |-> cs]
JNum(cs) == [t |-> "number", s |-> cs]
JUndefined == [t |-> "undefined", s |-> <<>>]

(* String(v) *)
StringOf(v) == v.s

(* Truthiness of a JSON scalar: a non-empty string, a number other than 0 and NaN *)
Truthy(v) ==
    IF v.t = "string" THEN v.s # <<>>
    ELSE IF v.t = "number" THEN ~Number(v.s).nan /\ Number(v.s).mant # 0
    ELSE FALSE

(* Truthiness of a string that may be undefined or null *)
TruthyString(x) == ~Nullish(x) /\ x # ""

nullChars == <<null>>

(* The body of the try block of parse402Response *)
parse402Body(response) ==
    LET read == ReadJson(response)
    IN  IF read.kind = "throw" THEN read
        ELSE LET body == read.value
             IN  IF body.paymentRequirements.present
                 THEN LET req == body.paymentRequirements.value
                      IN  Return(Some([ amount |-> IF req.amount.t = "undefined" THEN <<"0">>
                                                   ELSE StringOf(req.amount),
                                        payTo |-> Coalesce(req.payTo, "") ]))
                 ELSE IF Truthy(body.amount) /\ TruthyString(body.payTo)
                 THEN Return(Some([amount |-> StringOf(body.amount), payTo |-> body.payTo]))
                 ELSE LET headerAmount == response.headers.XPaymentAmount
                          headerPayTo  == response.headers.XPaymentAddress
                      IN  IF /\ headerAmount # nullChars
                             /\ headerAmount # <<>>
                             /\ TruthyString(headerPayTo)
                          THEN Return(Some([amount |-> headerAmount, payTo |-> headerPayTo]))
                          ELSE Return(None)

(* parse402Response without its try/catch *)
parse402ResponseWithoutCatch(response) == parse402Body(response)

(* try { ... } catch { return null } *)
parse402Response(response) ==
    LET o == parse402Body(response)
    IN  IF o.kind = "throw" THEN Return(None) ELSE o

(***************************************************************************)
(* x402-handler: createX402Handler(...).fetch                              *)
(***************************************************************************)
NoHeaders == [XPaymentAmount |-> nullChars, XPaymentAddress |-> null]
PaymentHeaders(amount) == [XPaymentAmount |-> amount, XPaymentAddress |-> "0xHeaderPayee"]

Chars(n) == NatToChars(n)

NoTerms == [paymentRequirements |-> None, amount |-> JUndefined, payTo |-> undefined]

(* Amounts a challenge may quote: below, at and above the default ceiling  *)
(* of 1.00, zero, negative and not a number.                               *)
QuotedAmounts ==
    { JStr(Chars(500000)), JStr(Chars(1000000)), JStr(Chars(1000001)),
      JStr(<<"0">>), JStr(<<"-", "5">>), JStr(<<"a", "b", "c">>),
      JNum(Chars(250000)), JUndefined }

ChallengeBodies ==
    { Undecodable, JsonNull, JsonObject(NoTerms) }
    \cup { JsonObject([NoTerms EXCEPT !.paymentRequirements =
                          Some([amount |-> a, payTo |-> "0xPayee"])]) :
              a \in QuotedAmounts }
    \cup { JsonObject([NoTerms EXCEPT !.paymentRequirements =
                          Some([amount |-> JStr(Chars(500000)), payTo |-> undefined])]) }
    \cup { JsonObject([NoTerms EXCEPT !.amount = a, !.payTo = p]) :
              a \in {JStr(Chars(500000)), JStr(<<>>), JNum(<<"0">>), JNum(Chars(600000))},
              p \in {undefined, "", "0xTopPayee"} }

(* What a fetch() of the resource can do.  A Response is an object: id     *)
(* tells the first response from the retried one, bodyUsed whether its     *)
(* body has been read.                                                     *)
ResourceResponses(id) ==
    { [id |-> id, status |-> st, headers |-> h, body |-> b, bodyUsed |-> FALSE] :
        st \in {402},
        h \in {NoHeaders},
        b \in ChallengeBodies }
    \cup
    { [id |-> id, status |-> 402, headers |-> h, body |-> b, bodyUsed |-> FALSE] :
        h \in { PaymentHeaders(Chars(700000)), PaymentHeaders(Chars(2000000)),
                PaymentHeaders(<<>>),
                [XPaymentAmount |-> Chars(700000), XPaymentAddress |-> null] },
        b \in { Undecodable, JsonNull, JsonObject(NoTerms),
                JsonObject([NoTerms EXCEPT !.amount = JStr(Chars(500000))]) } }
    \cup
    { [id |-> id, status |-> st, headers |-> h, body |-> b, bodyUsed |-> FALSE] :
        st \in {200, 500},
        h \in {NoHeaders, PaymentHeaders(Chars(700000))},
        b \in { Undecodable,
                JsonObject([NoTerms EXCEPT !.paymentRequirements =
                   Some([amount |-> JStr(Chars(500000)), payTo |-> "0xPayee"])]) } }

FirstOutcomes ==
    Rejects \cup { [kind |-> "response", response |-> r] : r \in ResourceResponses("first") }

(* The retried request may be answered like any other, a 402 included *)
RetryOutcomes ==
    Rejects \cup
    { [kind |-> "response",
       response |-> [id |-> "retry", status |-> st, headers |-> NoHeaders, body |-> b,
                     bodyUsed |-> FALSE]] :
        st \in {200, 402},
        b \in { Undecodable,
                JsonObject([NoTerms EXCEPT !.paymentRequirements =
                   Some([amount |-> JStr(Chars(500000)), payTo |-> "0xPayee"])]) } }

(* The init argument of handler.fetch: absent, or method, headers and body *)
Inits ==
    { None,
      Some([ method |-> "POST", body |-> "{}",
             headers |-> [h \in {"Authorization"} |-> "Bearer caller-token"] ]),
      Some([ method |-> "GET", body |-> undefined,
             headers |-> [h \in {"Accept", "X-Payment-Proof"} |->
                            IF h = "Accept" THEN "application/json" ELSE "0xStale"] ]) }

Urls == {"https://api.example.com/paid-endpoint"}

(* new Headers(init?.headers ?? {}) *)
HeadersOf(init) == IF init.present THEN init.value.headers ELSE <<>>

(* Headers.prototype.set *)
HeadersSet(h, name, value) ==
    [n \in (DOMAIN h) \cup {name} |-> IF n = name THEN value ELSE h[n]]

(* RetryInit setting the proof header alone *)
RetryInitProofOnly(init, result) ==
    LET retryHeaders ==
            HeadersSet(HeadersOf(init), "X-Payment-Proof", Coalesce(result.txHash, ""))
    IN  IF init.present THEN Some([init.value EXCEPT !.headers = retryHeaders])
        ELSE Some([headers |-> retryHeaders])

(* RetryInit without the spread of init *)
RetryInitHeadersOnly(init, result) ==
    LET retryHeaders ==
            HeadersSet(HeadersSet(HeadersOf(init), "X-Payment-Proof",
                                  Coalesce(result.txHash, "")),
                       "X-Payment-Facilitator", "paybot")
    IN  Some([headers |-> retryHeaders])

(* { ...init, headers: retryHeaders } *)
RetryInit(init, result) ==
    LET retryHeaders ==
            HeadersSet(HeadersSet(HeadersOf(init), "X-Payment-Proof",
                                  Coalesce(result.txHash, "")),
                       "X-Payment-Facilitator", "paybot")
    IN  IF init.present THEN Some([init.value EXCEPT !.headers = retryHeaders])
        ELSE Some([headers |-> retryHeaders])

(* handler.fetch is called: the original request goes out *)
HandlerFetch ==
    /\ hconfig.present
    /\ hpc = "idle"
    /\ \E url \in Urls, init \in Inits :
          /\ hcall' = Some([url |-> url, init |-> init])
          /\ resourceLog' = Append(resourceLog, [url |-> url, init |-> init])
    /\ hpc' = "FETCH_SENT"
    /\ UNCHANGED <<client, hconfig, payVars, firstResponse, retryResponse, hReturned,
                   hThrown, payCalls, auxVars>>

(* ExceedsLimit comparing with >= *)
ExceedsLimitOrEqual(requirements, maxAutoPay) ==
    ~GreaterThan(Number(maxAutoPay), DivMillion(Number(requirements.amount)))

(* The check against the auto-pay limit, and the request handed to pay *)
ExceedsLimit(requirements, maxAutoPay) ==
    GreaterThan(DivMillion(Number(requirements.amount)), Number(maxAutoPay))

LimitError(requirements, maxAutoPay) ==
    ErrorOf("x402: Payment of $"
            \o Str(ToFixed(DivMillion(Number(requirements.amount)), 2))
            \o " exceeds auto-pay limit of $" \o Str(maxAutoPay))

(* HandlerPayRequest writing the amount with two fraction digits *)
HandlerPayRequestTwoDigits(url, requirements, network) ==
    [ resource |-> url,
      amount |-> ToFixed(DivMillion(Number(requirements.amount)), 2),
      payTo |-> requirements.payTo,
      tokenContract |-> undefined,
      network |-> network ]

HandlerPayRequest(url, requirements, network) ==
    [ resource |-> url,
      amount |-> ToFixed(DivMillion(Number(requirements.amount)), 6),
      payTo |-> requirements.payTo,
      tokenContract |-> undefined,
      network |-> network ]

(* IsPaymentRequired testing !response.ok *)
IsPaymentRequiredNotOk(response) == ~Ok(response)

(* response.status !== 402 is the pass-through test *)
IsPaymentRequired(response) == response.status = 402

(* handler.fetch, from the outcome of the original request up to its       *)
(* return, its throw, or its call of client.pay.  `response` is the first  *)
(* response as the code leaves it: parse402Response reads its body.        *)
AfterFirstFetch(out, url, cfg) ==
    IF out.kind = "reject" THEN Throw(out.error)
    ELSE LET response == out.response
         IN  IF ~IsPaymentRequired(response) THEN Return(response)
             ELSE LET parsed == parse402Response(response)
                      read   == [response EXCEPT !.bodyUsed = TRUE]
                  IN  IF parsed.kind = "throw" THEN parsed
                      ELSE IF ~parsed.value.present THEN Return(read)
                      ELSE IF ExceedsLimit(parsed.value.value, cfg.maxAutoPay)
                      THEN Throw(LimitError(parsed.value.value, cfg.maxAutoPay))
                      ELSE [ kind |-> "pay",
                             request |-> HandlerPayRequest(url, parsed.value.value,
                                                           cfg.network) ]

(* The original request settles, in one of the given ways, and            *)
(* handler.fetch resumes                                                   *)
FirstResponseFrom(outcomes) ==
    /\ hpc = "FETCH_SENT"
    /\ \E out \in outcomes, nowSeconds \in 0..MaxNow, nonce \in 0..MaxNonce :
          LET o == AfterFirstFetch(out, hcall.value.url, hconfig.value)
          IN  /\ firstResponse' = IF out.kind = "reject" THEN None ELSE Some(out.response)
              /\ hpc' = IF o.kind = "throw" THEN "raised"
                        ELSE IF o.kind = "return" THEN "returned" ELSE "PAYING"
              /\ hReturned' = IF o.kind = "return" THEN Some(o.value) ELSE hReturned
              /\ hThrown' = IF o.kind = "throw" THEN Some(o.error) ELSE hThrown
              /\ IF o.kind = "pay"
                 THEN /\ payCalls' = payCalls + 1
                      /\ PayEnter(o.request, nowSeconds, nonce)
                 ELSE UNCHANGED <<payCalls, payVars>>
    /\ UNCHANGED <<client, hconfig, hcall, resourceLog, retryResponse, auxVars>>

(* The original request settles and handler.fetch resumes *)
HandlerFirstResponse == FirstResponseFrom(FirstOutcomes)

(* AfterPay without the test of result.success *)
AfterPayIgnoringFailure(paid, raised, call) ==
    IF raised.present THEN Throw(raised.value)
    ELSE IF ~paid.value.success
    THEN Send([url |-> call.url, init |-> call.init], NoFrame)
    ELSE Send([url |-> call.url, init |-> RetryInit(call.init, paid.value)], NoFrame)

(* handler.fetch, from the settling of client.pay to the retried request *)
AfterPay(paid, raised, call) ==
    IF raised.present THEN Throw(raised.value)
    ELSE IF ~paid.value.success
    THEN Throw(ErrorOf("x402: Payment failed: " \o paid.value.error))
    ELSE Send([url |-> call.url, init |-> RetryInit(call.init, paid.value)], NoFrame)

(* client.pay has settled and handler.fetch resumes *)
HandlerAfterPay ==
    /\ hpc = "PAYING"
    /\ payState \in {"SETTLED", "FAILED", "RAISED"}
    /\ LET o == AfterPay(payResult, payRaised, hcall.value)
       IN  /\ hpc' = IF o.kind = "throw" THEN "raised" ELSE "RETRY_SENT"
           /\ hThrown' = IF o.kind = "throw" THEN Some(o.error) ELSE hThrown
           /\ resourceLog' = IF o.kind = "send" THEN Append(resourceLog, o.request)
                             ELSE resourceLog
    /\ UNCHANGED <<client, hconfig, payVars, hcall, firstResponse, retryResponse,
                   hReturned, payCalls, auxVars>>

(* AfterRetry requesting once more when the retried request is answered 402 *)
AfterRetryLooping(out, call) ==
    IF out.kind = "reject" THEN Throw(out.error)
    ELSE IF out.response.status = 402
    THEN Send([url |-> call.url, init |-> call.init], NoFrame)
    ELSE Return(out.response)

(* return globalThis.fetch(url, {...}): whatever the retried request does  *)
(* is what handler.fetch does.                                             *)
AfterRetry(out, call) ==
    IF out.kind = "reject" THEN Throw(out.error) ELSE Return(out.response)

(* The retried request settles *)
HandlerRetryResponse ==
    /\ hpc = "RETRY_SENT"
    /\ \E out \in RetryOutcomes :
          LET o == AfterRetry(out, hcall.value)
          IN  /\ retryResponse' = IF out.kind = "reject" THEN None ELSE Some(out.response)
              /\ hpc' = IF o.kind = "throw" THEN "raised"
                        ELSE IF o.kind = "return" THEN "returned" ELSE "RETRY_SENT"
              /\ hReturned' = IF o.kind = "return" THEN Some(o.value) ELSE hReturned
              /\ hThrown' = IF o.kind = "throw" THEN Some(o.error) ELSE hThrown
              /\ resourceLog' = IF o.kind = "send" THEN Append(resourceLog, o.request)
                                ELSE resourceLog
    /\ UNCHANGED <<client, hconfig, payVars, hcall, firstResponse, payCalls, auxVars>>

Next ==
    \/ CallPay
    \/ VerifyResponse
    \/ SettleResponse
    \/ HandlerFetch
    \/ HandlerFirstResponse
    \/ HandlerAfterPay
    \/ HandlerRetryResponse

Spec == Init /\ [][Next]_vars

(***************************************************************************)
(* Concurrent pay() attempts on one client.  Each call of pay has its own  *)
(* locals; the calls share this.config, the clock and the random source.   *)
(***************************************************************************)
(* The requests and the facilitator outcomes of the concurrent attempts *)
ConcurrentRequests ==
    [ resource : {"https://api.example.com/data"},
      amount : { <<"0", ".", "0", "1">> },
      payTo : {"0xPayee"},
      tokenContract : {undefined},
      network : {undefined, "eip155:1"} ]

ConcurrentOutcomes ==
    { out \in FacilitatorOutcomes :
        \/ out.kind = "reject" /\ out.error.type = "Error"
        \/ /\ out.kind = "response"
           /\ out.status = 500
           /\ out.body.kind = "object"
           /\ out.body.value.code = "TRUST_VIOLATION"
        \/ /\ out.kind = "response"
           /\ out.status = 200
           /\ out.body.kind = "object"
           /\ \/ out.body.value.settlementToken \in {"tokA", "tokB"}
              \/ out.body.value.transaction = "0xTX1" }

(* buildPaymentPayload calls generateEIP3009Nonce and Date.now only past   *)
(* its two early exits: no wallet key, no signing domain.                  *)
DrawsNonce(config, network) ==
    /\ ~(config.walletPrivateKey = undefined \/ config.walletPrivateKey = "")
    /\ network \in DOMAIN EIP712_DOMAINS

(* The locals kept in one field of the client, which attempt B overwrites *)
LocalsOfSharedField(all, a) ==
    IF all["B"].frame.active THEN all["B"].frame ELSE all[a].frame

(* The locals of attempt a: const declarations of its own call of pay *)
LocalsOf(all, a) == all[a].frame

(* The attempt after a stretch of pay's code that ended in outcome o *)
Advanced(att, o, sentState) ==
    [ att EXCEPT
        !.state  = IF o.kind = "send" THEN sentState
                   ELSE IF o.kind = "throw" THEN "RAISED"
                   ELSE IF o.value.success THEN "SETTLED" ELSE "FAILED",
        !.sent   = IF o.kind = "send" THEN Append(@, o.request) ELSE @,
        !.frame  = IF o.kind = "send" THEN o.keep ELSE @,
        !.result = IF o.kind = "return" THEN Some(o.value) ELSE @,
        !.raised = IF o.kind = "throw" THEN Some(o.error) ELSE @ ]

(* client.pay(request) is called while another call may be in flight *)
AttemptCall(a) ==
    /\ attempts[a].state = "NONE"
    /\ \E request \in ConcurrentRequests, randomBytes32 \in 0..MaxNonce :
          LET drew == DrawsNonce(client, Coalesce(request.network, "eip155:84532"))
              o    == PayCatch(PayBegin(client, request, clock, randomBytes32))
          IN  /\ draws' = IF drew THEN Append(draws, randomBytes32) ELSE draws
              /\ attempts' =
                    [ attempts EXCEPT ![a] =
                        [ Advanced(@, o, "VERIFY_SENT") EXCEPT
                            !.request = Some(request),
                            !.builtAt = Some(clock),
                            !.drawIndex = IF drew THEN Some(Len(draws) + 1) ELSE None ] ]
    /\ UNCHANGED <<client, clock, mainVars, conversionVars, api, wrapper>>

(* The verify fetch of attempt a settles and that call of pay resumes *)
AttemptVerifyResponse(a) ==
    /\ attempts[a].state = "VERIFY_SENT"
    /\ \E out \in ConcurrentOutcomes :
          LET o == PayCatch(AfterVerify(client, LocalsOf(attempts, a), out))
          IN  attempts' =
                 [ attempts EXCEPT ![a] =
                     [ Advanced(@, o, "SETTLE_SENT") EXCEPT
                         !.received = Append(@, out) ] ]
    /\ UNCHANGED <<client, clock, draws, mainVars, conversionVars, api, wrapper>>

(* The settle fetch of attempt a settles and that call of pay resumes *)
AttemptSettleResponse(a) ==
    /\ attempts[a].state = "SETTLE_SENT"
    /\ \E out \in ConcurrentOutcomes :
          LET o == PayCatch(AfterSettle(LocalsOf(attempts, a), out))
          IN  attempts' =
                 [ attempts EXCEPT ![a] =
                     [ Advanced(@, o, "SETTLE_SENT") EXCEPT
                         !.received = Append(@, out) ] ]
    /\ UNCHANGED <<client, clock, draws, mainVars, conversionVars, api, wrapper>>

(* A second passes *)
Tick ==
    /\ clock < MaxNow
    /\ clock' = clock + 1
    /\ UNCHANGED <<client, attempts, draws, mainVars, conversionVars, api, wrapper>>

ConcurrentInit == Init /\ ~hconfig.present

ConcurrentNext ==
    \/ \E a \in Attempts : AttemptCall(a)
    \/ \E a \in Attempts : AttemptVerifyResponse(a)
    \/ \E a \in Attempts : AttemptSettleResponse(a)
    \/ Tick

ConcurrentSpec == ConcurrentInit /\ [][ConcurrentNext]_vars

(***************************************************************************)
(* usdToBaseUnits applied to decimal strings                               *)
(***************************************************************************)
AmountDigits == {"0", "1", "9"}

(* The strings of at most n digits *)
DigitStrings(n) == UNION { [1..k -> AmountDigits] : k \in 0..n }

(* digits, digits '.' digits, '.' digits, digits '.' *)
UsdAmounts ==
    { w \in DigitStrings(MaxWholeDigits) : w # <<>> }
    \cup { w \o <<".">> \o f : w \in DigitStrings(MaxWholeDigits),
                               f \in DigitStrings(MaxFractionDigits) }

ConversionInit ==
    /\ MainInit
    /\ ~hconfig.present
    /\ client.walletPrivateKey = undefined
    /\ ConcurrentIdle
    /\ ApiIdle
    /\ WrapperIdle
    /\ usdAmount \in UsdAmounts
    /\ baseUnits = None

(* const amountBaseUnits = this.usdToBaseUnits(request.amount) *)
Convert ==
    /\ baseUnits = None
    /\ baseUnits' = Some(usdToBaseUnits(usdAmount))
    /\ UNCHANGED <<client, mainVars, concurrentVars, usdAmount, api, wrapper>>

ConversionNext == Convert

ConversionSpec == ConversionInit /\ [][ConversionNext]_vars

(***************************************************************************)
(* PayBotClient._request and the methods built on it: balance, history,    *)
(* setLimits, register, health                                             *)
(***************************************************************************)
(* new PayBotApiError(message, code, statusCode, details) *)
PayBotApiError(message, code, statusCode, details) ==
    [ type |-> "PayBotApiError", message |-> message, code |-> code,
      statusCode |-> statusCode, details |-> details ]

(* The calls a caller can make: the path and options each method hands to  *)
(* _request.  history(limit = 50) and register(trustLevel) take an         *)
(* optional argument; setLimits spreads its argument into the body.        *)
ApiCalls(config) ==
    { [name |-> "balance", path |-> "/balance", method |-> undefined, body |-> None,
       query |-> Some([botId |-> config.botId])],
      [name |-> "health", path |-> "/health", method |-> undefined, body |-> None,
       query |-> None] }
    \cup { [name |-> "history", path |-> "/history", method |-> undefined, body |-> None,
            query |-> Some([botId |-> config.botId,
                            limit |-> Str(NatToChars(IF limit.present THEN limit.value
                                                     ELSE 50))])] :
              limit \in {None, Some(10)} }
    \cup { [name |-> "setLimits", path |-> "/limits", method |-> "PUT",
            body |-> Some(limits @@ [botId |-> config.botId]), query |-> None] :
              limits \in { [maxTransactionUsd |-> 5], [maxTransactionsPerHour |-> 10] } }
    \cup { [name |-> "register", path |-> "/bots", method |-> "POST",
            body |-> Some([botId |-> config.botId,
                           trustLevel |-> IF trustLevel.present THEN trustLevel.value
                                          ELSE 1]),
            query |-> None] :
              trustLevel \in {None, Some(2)} }

(* _request, up to its fetch: the URL with its query, the method, the      *)
(* headers and the body                                                    *)
RequestFetch(config, call) ==
    [ url |-> config.facilitatorUrl \o call.path,
      query |-> call.query,
      method |-> Coalesce(call.method, "GET"),
      headers |-> IF call.body.present
                  THEN [XAPIKey |-> config.apiKey, ContentType |-> "application/json"]
                  ELSE [XAPIKey |-> config.apiKey],
      body |-> call.body ]

(* _request, from the outcome of its fetch: what it throws or returns *)
AfterRequestFetch(out) ==
    IF out.kind = "reject"
    THEN Throw(PayBotApiError("Network error: " \o getErrorMessage(out.error),
                              "NETWORK_ERROR", 0, undefined))
    ELSE IF ~Ok(out)
    THEN IF out.body.kind = "null"
         THEN Throw([type |-> "TypeError",
                     message |-> "Cannot read properties of null (reading 'error')"])
         ELSE LET errorData == IF out.body.kind = "undecodable" THEN EmptyObject
                               ELSE out.body.value
              IN  Throw(PayBotApiError(
                     Coalesce(errorData.error, "HTTP " \o ToString(out.status)),
                     Coalesce(errorData.code, "HTTP_ERROR"),
                     out.status, errorData.details))
    ELSE IF out.body.kind = "undecodable"
    THEN Throw([type |-> "SyntaxError", message |-> "Unexpected token < in JSON"])
    ELSE Return(out.body)

(* What the method makes of _request's result: setLimits awaits it and     *)
(* returns nothing, the others return it                                   *)
MethodResult(name, o) ==
    IF o.kind = "return" /\ name = "setLimits" THEN Return([kind |-> "undefined"]) ELSE o

(* A caller invokes one of the five methods: _request sends its fetch *)
ApiCall ==
    /\ api.pc = "idle"
    /\ \E call \in ApiCalls(client) :
          api' = [api EXCEPT !.pc = "FETCH_SENT", !.method = call.name,
                             !.request = Some(RequestFetch(client, call))]
    /\ UNCHANGED <<client, mainVars, concurrentVars, conversionVars, wrapper>>

(* The fetch settles and the method returns or raises *)
ApiResponse ==
    /\ api.pc = "FETCH_SENT"
    /\ \E out \in FacilitatorOutcomes :
          LET o == MethodResult(api.method, AfterRequestFetch(out))
          IN  api' = [api EXCEPT
                        !.pc = IF o.kind = "throw" THEN "raised" ELSE "returned",
                        !.outcome = Some(out),
                        !.returned = IF o.kind = "return" THEN Some(o.value) ELSE @,
                        !.thrown = IF o.kind = "throw" THEN Some(o.error) ELSE @]
    /\ UNCHANGED <<client, mainVars, concurrentVars, conversionVars, wrapper>>

ApiInit == Init /\ ~hconfig.present

ApiNext == ApiCall \/ ApiResponse

ApiSpec == ApiInit /\ [][ApiNext]_vars

(***************************************************************************)
(* PayBotClient.request of client.ts: every call under a timer             *)
(***************************************************************************)

(* The configurations the client of client.ts is constructed with *)
WrapperConfigs ==
    [ baseUrl : {<<"https://api.paybot.dev">>, <<"https://api.paybot.dev", "/", "/">>},
      apiKey  : {"your-api-key"},
      timeout : {None, Some(2)} ]

(* pay, getPayment, listPayments and health: the method, path and body     *)
(* each hands to request                                                   *)
WrapperCalls ==
    { [name |-> "pay", method |-> "POST", path |-> "/v1/payments",
       body |-> Some([to |-> "0xRecipient", amount |-> "10.00"])],
      [name |-> "getPayment", method |-> "GET", path |-> "/v1/payments/" \o "pay_1",
       body |-> None],
      [name |-> "health", method |-> "GET", path |-> "/health", body |-> None] }
    \cup { [name |-> "listPayments", method |-> "GET",
            path |-> "/v1/payments" \o (IF limit.present /\ limit.value # 0
                                        THEN "?limit=" \o ToString(limit.value)
                                        ELSE ""),
            body |-> None] : limit \in {None, Some(0), Some(10)} }

(* The fetch that request sends, without the abort signal *)
WrapperFetchUnsignalled(w, call) ==
    [ url     |-> w.baseUrl \o call.path,
      method  |-> call.method,
      headers |-> [ contentType |-> "application/json",
                    authorization |-> "Bearer " \o w.apiKey ],
      body    |-> call.body,
      signal  |-> None ]

(* The fetch that request sends: signal: controller.signal *)
WrapperFetch(w, call) ==
    [ url     |-> w.baseUrl \o call.path,
      method  |-> call.method,
      headers |-> [ contentType |-> "application/json",
                    authorization |-> "Bearer " \o w.apiKey ],
      body    |-> call.body,
      signal  |-> Some("controller.signal") ]

(* The instants the elapsed time is observed at: around the timeout *)
Instants(timeout) == {t \in {1, timeout - 1, timeout, timeout + 1} : t > 0}

(* What the runtime raises at an await whose signal has aborted *)
AbortError == [name |-> "AbortError", message |-> "This operation was aborted"]

(* The await of the pending call is cut by the abort *)
Abortable(w) == w.init.present /\ w.init.value.signal.present /\ w.aborted

WrapperPending(w) == w.pc \in {"FETCHING", "READING_TEXT", "READING_JSON"}

(* finally { clearTimeout(timer) } as the call returns or raises *)
WrapperReturn(w, v) ==
    [w EXCEPT !.pc = "returned", !.returned = Some(v), !.timerArmed = FALSE]

WrapperThrow(w, e) ==
    [w EXCEPT !.pc = "raised", !.thrown = Some(e), !.timerArmed = FALSE]

(* throw new Error(`PayBot API error (${response.status}): ${errorBody}`) *)
WrapperApiError(status, errorBody) ==
    [name |-> "Error",
     message |-> "PayBot API error (" \o ToString(status) \o "): " \o errorBody]

(* A method is called: the timer is set and the fetch sent *)
WrapperCall ==
    /\ wrapper.pc = "idle"
    /\ \E call \in WrapperCalls :
          wrapper' = [wrapper EXCEPT !.pc = "FETCHING", !.timerArmed = TRUE,
                                     !.init = Some(WrapperFetch(wrapper, call))]
    /\ UNCHANGED <<client, mainVars, concurrentVars, conversionVars, api>>

(* Time passes while the call is pending *)
TimePasses ==
    /\ WrapperPending(wrapper)
    /\ \E t \in Instants(wrapper.timeout) :
          /\ t > wrapper.elapsed
          /\ wrapper' = [wrapper EXCEPT !.elapsed = t]
    /\ UNCHANGED <<client, mainVars, concurrentVars, conversionVars, api>>

(* setTimeout(() => controller.abort(), this.timeout): the timer fires *)
TimerFires ==
    /\ wrapper.timerArmed
    /\ wrapper.elapsed >= wrapper.timeout
    /\ wrapper' = [wrapper EXCEPT !.timerArmed = FALSE, !.aborted = TRUE]
    /\ UNCHANGED <<client, mainVars, concurrentVars, conversionVars, api>>

(* The server answers the fetch, or the transport fails *)
FetchSettles ==
    /\ wrapper.pc = "FETCHING"
    /\ ~Abortable(wrapper)
    /\ \/ wrapper' = WrapperThrow(wrapper, [name |-> "TypeError", message |-> "fetch failed"])
       \/ \E status \in {200, 500} :
             wrapper' = [wrapper EXCEPT
                           !.pc = IF status \in 200..299 THEN "READING_JSON"
                                                         ELSE "READING_TEXT",
                           !.response = Some([status |-> status])]
    /\ UNCHANGED <<client, mainVars, concurrentVars, conversionVars, api>>

(* The body of the response arrives: response.json() on ok, otherwise      *)
(* response.text().catch(() => 'Unknown error') and the throw              *)
BodySettles ==
    /\ wrapper.pc \in {"READING_TEXT", "READING_JSON"}
    /\ ~Abortable(wrapper)
    /\ IF wrapper.pc = "READING_JSON"
       THEN \E body \in {Undecodable, JsonObject([status |-> "ok"])} :
               wrapper' = IF body = Undecodable
                          THEN WrapperThrow(wrapper, [name |-> "SyntaxError",
                                                      message |-> "Unexpected token"])
                          ELSE WrapperReturn(wrapper, body.value)
       ELSE \E text \in {Some("Internal Server Error"), None} :
               wrapper' = WrapperThrow(wrapper,
                             WrapperApiError(wrapper.response.value.status,
                                IF text.present THEN text.value ELSE "Unknown error"))
    /\ UNCHANGED <<client, mainVars, concurrentVars, conversionVars, api>>

(* The abort reaches the pending await: fetch and response.json() reject   *)
(* with the AbortError, the rejection of response.text() is caught         *)
AbortDelivered ==
    /\ WrapperPending(wrapper)
    /\ Abortable(wrapper)
    /\ wrapper' = IF wrapper.pc = "READING_TEXT"
                  THEN WrapperThrow(wrapper,
                          WrapperApiError(wrapper.response.value.status, "Unknown error"))
                  ELSE WrapperThrow(wrapper, AbortError)
    /\ UNCHANGED <<client, mainVars, concurrentVars, conversionVars, api>>

WrapperInit ==
    /\ MainInit
    /\ ~hconfig.present
    /\ client.walletPrivateKey = undefined
    /\ ConcurrentIdle
    /\ ConversionIdle
    /\ ApiIdle
    /\ \E config \in WrapperConfigs : wrapper = WrapperConstructor(config)

WrapperNext ==
    \/ WrapperCall
    \/ TimePasses
    \/ TimerFires
    \/ FetchSettles
    \/ BodySettles
    \/ AbortDelivered

(* Time passes, a due timer fires and an abort is delivered; the server    *)
(* is free never to answer                                                 *)
WrapperSpec ==
    /\ WrapperInit
    /\ [][WrapperNext]_vars
    /\ WF_vars(TimePasses)
    /\ WF_vars(TimerFires)
    /\ WF_vars(AbortDelivered)

(***************************************************************************)
(* handler.fetch answered by a 402 that quotes its amount in a header: the *)
(* ceiling check, the request handed to pay and the verify request         *)
(***************************************************************************)

(* The auto-pay ceilings a handler is created with: the default, one       *)
(* cent, text that is no number, a negative number                         *)
CeilingOptions ==
    [ maxAutoPay : { undefinedChars, <<"0", ".", "0", "1">>, <<"a", "b", "c">>,
                     <<"-", "1">> },
      network : {undefined} ]

(* The X-Payment-Amount values: digit strings, a negative number, a        *)
(* fraction, text that is no number                                        *)
QuotedHeaderAmounts ==
    { a \in DigitStrings(MaxQuotedDigits) : a # <<>> }
    \cup { <<"-", "5">>, <<"1", ".", "5">>, <<"a", "b", "c">>, <<"-", "a">> }

QuotedOutcomes ==
    { [ kind |-> "response",
        response |-> [ id |-> "first", status |-> 402, headers |-> PaymentHeaders(a),
                       body |-> JsonObject(NoTerms), bodyUsed |-> FALSE ] ] :
        a \in QuotedHeaderAmounts }

(* The original request is answered 402 with the terms in its headers *)
ChallengeResponse == FirstResponseFrom(QuotedOutcomes)

ChallengeInit ==
    /\ \E config \in Configs, options \in CeilingOptions :
          /\ client = PayBotClientConstructor(config)
          /\ hconfig = createX402Handler(options)
    /\ payState = "NONE"
    /\ payTrace = <<>>
    /\ frame = NoFrame
    /\ payResult = None
    /\ payRaised = None
    /\ sent = <<>>
    /\ received = <<>>
    /\ hpc = "idle"
    /\ hcall = None
    /\ resourceLog = <<>>
    /\ firstResponse = None
    /\ retryResponse = None
    /\ hReturned = None
    /\ hThrown = None
    /\ payCalls = 0
    /\ AuxInit

ChallengeNext == HandlerFetch \/ ChallengeResponse

ChallengeSpec == ChallengeInit /\ [][ChallengeNext]_vars

(***************************************************************************)
(* Vocabulary of the properties                                            *)
(***************************************************************************)
IsVerify(req) == req.url = client.facilitatorUrl \o "/verify"
IsSettle(req) == req.url = client.facilitatorUrl \o "/settle"

PayWaiting == payState \in {"VERIFY_SENT", "SETTLE_SENT"}
PayEntered == payTrace # <<>>

(* A fetch that threw, answered with a non-success status, or answered     *)
(* with a body that does not decode to an object                           *)
TransportFailed(out) ==
    \/ out.kind = "reject"
    \/ out.status \notin 200..299
    \/ out.body.kind # "object"

(* A verify outcome with a success status and a non-empty settlement token *)
VerifiedWithToken(out) ==
    /\ out.kind = "response"
    /\ out.status \in 200..299
    /\ out.body.kind = "object"
    /\ out.body.value.settlementToken \notin {undefined, null, ""}

AmountMembers == {"grossAmount", "netAmount", "commissionAmount", "commissionRate"}

(* The payment terms the handler extracted from the first response *)
FirstIs402 == firstResponse.present /\ firstResponse.value.status = 402
Terms == parse402Response(firstResponse.value).value
TermsFound == FirstIs402 /\ Terms.present

(* The extracted amount is a whole number of base units; its value *)
AmountIsInteger == ~Number(Terms.value.amount).nan /\ Number(Terms.value.amount).exp = 0
AmountUnits == Number(Terms.value.amount).mant
(* The ceiling in base units (maxAutoPay has at most 6 fraction digits) *)
CeilingUnits ==
    Number(hconfig.value.maxAutoPay).mant * Pow10(Number(hconfig.value.maxAutoPay).exp + 6)

HandlerDone == hpc \in {"returned", "raised"}

(* The protocol states one attempt may have gone through *)
AllowedTraces ==
    { <<>>,
      <<"INIT", "FAILED">>,
      <<"INIT", "VERIFY_SENT">>,
      <<"INIT", "VERIFY_SENT", "FAILED">>,
      <<"INIT", "VERIFY_SENT", "VERIFIED", "SETTLE_SENT">>,
      <<"INIT", "VERIFY_SENT", "VERIFIED", "SETTLE_SENT", "FAILED">>,
      <<"INIT", "VERIFY_SENT", "VERIFIED", "SETTLE_SENT", "SETTLED">> }

(* The challenge is one the handler is to pay; the retried request and its headers *)
Payable == TermsFound /\ AmountIsInteger /\ AmountUnits <= CeilingUnits

RetryCarriesBothHeaders ==
    /\ Len(resourceLog) = 2
    /\ resourceLog[2].init.present
    /\ {"X-Payment-Proof", "X-Payment-Facilitator"}
          \subseteq DOMAIN resourceLog[2].init.value.headers
    /\ resourceLog[2].init.value.headers["X-Payment-Facilitator"] = "paybot"
    /\ resourceLog[2].init.value.headers["X-Payment-Proof"]
          = Coalesce(payResult.value.txHash, "")

(* The three formats of payment terms, by the members a response carries *)
HasNestedTerms(r) ==
    r.body.kind = "object" /\ r.body.value.paymentRequirements.present
HasTopLevelTerms(r) ==
    /\ r.body.kind = "object"
    /\ r.body.value.amount.t # "undefined"
    /\ ~Nullish(r.body.value.payTo)
HasHeaderTerms(r) ==
    r.headers.XPaymentAmount # nullChars /\ ~Nullish(r.headers.XPaymentAddress)

NoRecognizedFormat(r) == ~HasNestedTerms(r) /\ ~HasTopLevelTerms(r) /\ ~HasHeaderTerms(r)

(* Attempt a was called on a client with a signing key for a chain that    *)
(* has no signing domain in the registry                                   *)
Called(a) == attempts[a].request.present
NetworkOf(a) == Coalesce(attempts[a].request.value.network, "eip155:84532")
UnknownDomain(a) ==
    /\ Called(a)
    /\ client.walletPrivateKey \notin {undefined, ""}
    /\ NetworkOf(a) \notin {"eip155:84532", "eip155:8453"}

(* The digits before and after the radix point of a decimal string *)
WholeDigits(cs) == IF IndexOf(cs, ".") = 0 THEN cs ELSE SubSeq(cs, 1, IndexOf(cs, ".") - 1)
FractionDigits(cs) ==
    IF IndexOf(cs, ".") = 0 THEN <<>> ELSE SubSeq(cs, IndexOf(cs, ".") + 1, Len(cs))

(* The value of a decimal string times 10^6, rounded toward zero *)
MicroUnits(cs) ==
    DigitsToNat(WholeDigits(cs)) * 1000000
    + (IF Len(FractionDigits(cs)) <= 6
       THEN DigitsToNat(FractionDigits(cs)) * Pow10(6 - Len(FractionDigits(cs)))
       ELSE DigitsToNat(FractionDigits(cs)) \div Pow10(Len(FractionDigits(cs)) - 6))

(* The bytes randomBytes returned to attempt a, if it drew any *)
RandomOf(a) ==
    IF attempts[a].drawIndex.present THEN draws[attempts[a].drawIndex.value] ELSE 0

(* pay run on its own, with no other call in flight, on a request, a clock *)
(* reading, random bytes and the outcomes of its fetches so far: the       *)
(* request it is waiting on, or the result it returns                      *)
RunAlone(config, request, now, randomBytes32, outs) ==
    LET begun == PayCatch(PayBegin(config, request, now, randomBytes32))
    IN  IF begun.kind # "send" \/ Len(outs) = 0 THEN begun
        ELSE LET verified == PayCatch(AfterVerify(config, begun.keep, outs[1]))
             IN  IF verified.kind # "send" \/ Len(outs) = 1 THEN verified
                 ELSE PayCatch(AfterSettle(verified.keep, outs[2]))

(* The fetch of a method other than pay failed: it rejected, answered with *)
(* a non-success status, or answered with a body that is not JSON          *)
ApiFailed ==
    /\ api.outcome.present
    /\ \/ api.outcome.value.kind = "reject"
       \/ api.outcome.value.status \notin 200..299
       \/ api.outcome.value.body.kind = "undecodable"

(* The proof attempt a built and sent in its verify request *)
HasSignedProof(a) ==
    /\ attempts[a].sent # <<>>
    /\ attempts[a].sent[1].body.payload.payload.kind = "signed"
SignedProofOf(a) == attempts[a].sent[1].body.payload.payload

(***************************************************************************)
(* C1: pay never raises to its caller.  Whenever a pay() attempt is not    *)
(* waiting on the network it has returned a PaymentResult and raised       *)
(* nothing; and when proof construction failed (nothing was sent) or a     *)
(* verify or settle call threw, answered with a non-success status or      *)
(* answered with an undecodable body, the result has success = false and   *)
(* an error message.                                                       *)
(***************************************************************************)
PayNeverRaises ==
    /\ ~payRaised.present
    /\ payState # "RAISED"
    /\ (PayEntered /\ ~PayWaiting) => payResult.present
    /\ (/\ PayEntered
        /\ ~PayWaiting
        /\ \/ sent = <<>>
           \/ \E i \in 1..Len(received) : TransportFailed(received[i]))
       => /\ payResult.value.success = FALSE
          /\ "error" \in DOMAIN payResult.value
          /\ ~Nullish(payResult.value.error)

(* pay has returned a failure after the settle fetch rejected *)
PayNeverRaisesWitness ==
    /\ payResult.present
    /\ Len(received) = 2
    /\ received[2].kind = "reject"
    /\ payResult.value.success = FALSE
    /\ payResult.value.error = "fetch failed"

(***************************************************************************)
(* C2: a settle request is issued only after a verify response with a      *)
(* success status and a non-empty settlement token, and carries exactly    *)
(* that token; after any other verify outcome no settle request is issued  *)
(* and the result has success = false.                                     *)
(***************************************************************************)
SettleOnlyWithToken ==
    /\ \A i \in 1..Len(sent) :
          IsSettle(sent[i]) =>
             /\ i > 1
             /\ Len(received) >= 1
             /\ VerifiedWithToken(received[1])
             /\ sent[i].body.settlementToken = received[1].body.value.settlementToken
    /\ (Len(received) >= 1 /\ ~VerifiedWithToken(received[1])) =>
          /\ \A i \in 1..Len(sent) : ~IsSettle(sent[i])
          /\ payResult.present
          /\ payResult.value.success = FALSE

(* the settle request carrying the token of the verify response is out *)
SettleOnlyWithTokenWitness ==
    /\ Len(sent) = 2
    /\ IsSettle(sent[2])
    /\ received[1].body.value.settlementToken = "tokB"
    /\ sent[2].body.settlementToken = "tokB"

(***************************************************************************)
(* C3: when verify succeeded (success status with a settlement token) and  *)
(* the settle call failed (threw, non-success status, or a body that does  *)
(* not decode), pay returns success = false and the result holds no        *)
(* transaction reference.                                                  *)
(***************************************************************************)
SettleFailureHasNoTransaction ==
    (/\ Len(received) = 2
     /\ VerifiedWithToken(received[1])
     /\ TransportFailed(received[2]))
    => /\ payResult.present
       /\ payResult.value.success = FALSE
       /\ \/ "txHash" \notin DOMAIN payResult.value
          \/ Nullish(payResult.value.txHash)

(* settle answered 500 with a body that names a transaction *)
SettleFailureWitness ==
    /\ Len(received) = 2
    /\ VerifiedWithToken(received[1])
    /\ received[2].kind = "response"
    /\ received[2].status = 500
    /\ received[2].body.kind = "object"
    /\ received[2].body.value.transaction = "0xTX1"
    /\ payState = "FAILED"

(***************************************************************************)
(* C4: every PaymentResult returned by pay has the members grossAmount,    *)
(* netAmount, commissionAmount and commissionRate; on every result with    *)
(* success = false they are '0', '0', '0' and 0.                           *)
(***************************************************************************)
AmountFieldsAlwaysPresent ==
    payResult.present =>
       /\ AmountMembers \subseteq DOMAIN payResult.value
       /\ ~Nullish(payResult.value.grossAmount)
       /\ ~Nullish(payResult.value.netAmount)
       /\ ~Nullish(payResult.value.commissionAmount)
       /\ ~payResult.value.success =>
             /\ payResult.value.grossAmount = "0"
             /\ payResult.value.netAmount = "0"
             /\ payResult.value.commissionAmount = "0"
             /\ payResult.value.commissionRate = Zero

(* a failure returned for a non-success status that carried server data *)
AmountFieldsWitness ==
    /\ payResult.present
    /\ ~payResult.value.success
    /\ "errorCode" \in DOMAIN payResult.value
    /\ payResult.value.errorCode = "TRUST_VIOLATION"
    /\ payResult.value.grossAmount = "0"

(***************************************************************************)
(* C5: one pay() attempt goes INIT -> VERIFY_SENT -> (VERIFIED ->          *)
(* SETTLE_SENT -> SETTLED) | FAILED without retry: at most one verify and  *)
(* one settle request, the settle request only after the verify response,  *)
(* and after a thrown fetch or a non-success response no further request   *)
(* and a terminal outcome.                                                 *)
(***************************************************************************)
ProtocolOrderNoRetry ==
    /\ payTrace \in AllowedTraces
    /\ Cardinality({i \in 1..Len(sent) : IsVerify(sent[i])}) <= 1
    /\ Cardinality({i \in 1..Len(sent) : IsSettle(sent[i])}) <= 1
    /\ \A i \in 1..Len(sent) : IsVerify(sent[i]) \/ IsSettle(sent[i])
    /\ \A i \in 1..Len(sent) :
          IsSettle(sent[i]) => i = 2 /\ IsVerify(sent[1]) /\ Len(received) >= 1
    /\ Len(received) <= Len(sent)
    /\ \A k \in 1..Len(received) :
          (received[k].kind = "reject" \/ received[k].status \notin 200..299)
          => /\ Len(sent) = k
             /\ payState = "FAILED"
             /\ payResult.present

(* the settle fetch rejected: the attempt ended FAILED with two requests sent *)
ProtocolOrderWitness ==
    /\ payTrace = <<"INIT", "VERIFY_SENT", "VERIFIED", "SETTLE_SENT", "FAILED">>
    /\ received[2].kind = "reject"
    /\ Len(sent) = 2

(***************************************************************************)
(* C6: when the amount extracted from a 402 challenge strictly exceeds     *)
(* the auto-pay ceiling, handler.fetch raises, client.pay is invoked zero  *)
(* times and no request is retried; an amount equal to the ceiling is not  *)
(* rejected (client.pay is invoked).                                       *)
(***************************************************************************)
CeilingEnforced ==
    (TermsFound /\ AmountIsInteger) =>
       /\ AmountUnits > CeilingUnits =>
             /\ hpc = "raised"
             /\ hThrown.present
             /\ payCalls = 0
             /\ payState = "NONE"
             /\ sent = <<>>
             /\ Len(resourceLog) = 1
       /\ AmountUnits = CeilingUnits => payCalls = 1

(* 1000001 base units against the default ceiling of 1.00 *)
CeilingEnforcedWitness ==
    /\ TermsFound
    /\ AmountIsInteger
    /\ AmountUnits = 1000001
    /\ CeilingUnits = 1000000
    /\ hpc = "raised"
    /\ hThrown.value.message = "x402: Payment of $1.00 exceeds auto-pay limit of $1.00"

(***************************************************************************)
(* C7 as stated: a 402 response with a parseable amount at or below the    *)
(* ceiling leads to exactly one payment invocation and exactly one retried *)
(* request carrying both headers.                                          *)
(***************************************************************************)
PayableAlwaysRetried ==
    (HandlerDone /\ Payable) => payCalls = 1 /\ RetryCarriesBothHeaders

(***************************************************************************)
(* C7 amended: a 402 response with a parseable amount at or below the      *)
(* ceiling leads to exactly one payment invocation; when that payment      *)
(* succeeds, exactly one retried request is made and it carries both       *)
(* headers; when it fails, handler.fetch raises and no request is retried. *)
(***************************************************************************)
PayableRetriedOnSuccess ==
    Payable =>
       /\ payCalls = 1
       /\ HandlerDone =>
             IF payResult.value.success
             THEN RetryCarriesBothHeaders
             ELSE hpc = "raised" /\ Len(resourceLog) = 1

(* paid and retried: the retried request is answered *)
PayableRetriedWitness ==
    /\ Payable
    /\ hpc = "returned"
    /\ payCalls = 1
    /\ payResult.value.success
    /\ Len(resourceLog) = 2

(***************************************************************************)
(* C8: one handler.fetch call makes at most two requests to the resource   *)
(* and at most one payment; a 402 answer to the retried request is         *)
(* returned as it arrived, with no second payment and no further request.  *)
(***************************************************************************)
AtMostOneRetry ==
    /\ Len(resourceLog) <= 2
    /\ payCalls <= 1
    /\ Len(sent) <= 2
    /\ (retryResponse.present /\ retryResponse.value.status = 402) =>
          /\ hpc = "returned"
          /\ hReturned = retryResponse
          /\ ~hThrown.present
          /\ payCalls = 1
          /\ Len(resourceLog) = 2

(* the retried request was answered 402 and that answer was returned *)
AtMostOneRetryWitness ==
    /\ retryResponse.present
    /\ retryResponse.value.status = 402
    /\ retryResponse.value.body.kind = "object"
    /\ hpc = "returned"

(***************************************************************************)
(* C9: when the status of the first response is not 402, handler.fetch     *)
(* returns that response unchanged, its body unread, with zero payment     *)
(* invocations and no further request.                                     *)
(***************************************************************************)
PassThroughUnchanged ==
    (firstResponse.present /\ firstResponse.value.status # 402) =>
       /\ hpc = "returned"
       /\ hReturned = firstResponse
       /\ ~hReturned.value.bodyUsed
       /\ ~hThrown.present
       /\ payCalls = 0
       /\ payState = "NONE"
       /\ sent = <<>>
       /\ Len(resourceLog) = 1

(* a 500 response whose body quotes payment terms passed through *)
PassThroughWitness ==
    /\ firstResponse.present
    /\ firstResponse.value.status = 500
    /\ firstResponse.value.body.kind = "object"
    /\ hpc = "returned"

PaymentFailureRaises ==
    (payCalls = 1 /\ payResult.present /\ ~payResult.value.success /\ hpc # "PAYING")
    => /\ hpc = "raised"
       /\ hThrown.present
       /\ hThrown.value.type = "Error"
       /\ hThrown.value.message = "x402: Payment failed: " \o payResult.value.error
       /\ \A k \in 1..Len(received) :
             (/\ received[k].kind = "response"
              /\ received[k].status \notin 200..299
              /\ received[k].body.kind = "object"
              /\ ~Nullish(received[k].body.value.error))
             => hThrown.value.message
                   = "x402: Payment failed: " \o received[k].body.value.error
       /\ Len(resourceLog) = 1
       /\ ~retryResponse.present
       /\ ~hReturned.present

(* the facilitator refused the verify request and the handler raised its message *)
PaymentFailureWitness ==
    /\ hpc = "raised"
    /\ payCalls = 1
    /\ Len(received) = 1
    /\ received[1].kind = "response"
    /\ received[1].status = 500
    /\ hThrown.value.message = "x402: Payment failed: Spending limit exceeded"
    /\ Len(resourceLog) = 1

(***************************************************************************)
(* C12: every PaymentResult with success = true carries a transaction      *)
(* reference (txHash) and a settlement chain (network), both the members   *)
(* of the settle response; success = true is never returned without a      *)
(* transaction reference.                                                  *)
(***************************************************************************)
SuccessCarriesTransaction ==
    (payResult.present /\ payResult.value.success)
    => /\ Len(received) = 2
       /\ received[2].kind = "response"
       /\ received[2].body.kind = "object"
       /\ payResult.value.txHash = received[2].body.value.transaction
       /\ payResult.value.network = received[2].body.value.network
       /\ ~Nullish(payResult.value.txHash)
       /\ ~Nullish(payResult.value.network)

(***************************************************************************)
(* C13 as stated: for every signed proof produced by buildPaymentPayload,  *)
(* validAfter = 0 and validBefore - validAfter = 3600 exactly.             *)
(***************************************************************************)
ValidityWindowIs3600 ==
    \A a \in Attempts :
       HasSignedProof(a) =>
          /\ BigInt(SignedProofOf(a).validAfter) = 0
          /\ BigInt(SignedProofOf(a).validBefore)
                - BigInt(SignedProofOf(a).validAfter) = 3600

(***************************************************************************)
(* C13 amended: for every signed proof produced by buildPaymentPayload,    *)
(* validAfter = 0 and validBefore = t + 3600 exactly, t being the clock    *)
(* (whole seconds since the epoch) when the proof was built; the signed    *)
(* message carries the same two values.                                    *)
(***************************************************************************)
ValidityWindowEndsHourAfterBuild ==
    \A a \in Attempts :
       HasSignedProof(a) =>
          /\ SignedProofOf(a).validAfter = <<"0">>
          /\ BigInt(SignedProofOf(a).validBefore) = attempts[a].builtAt.value + 3600
          /\ SignedProofOf(a).signature.message.validAfter = 0
          /\ SignedProofOf(a).signature.message.validBefore
                = attempts[a].builtAt.value + 3600

(* a proof built one second after the epoch: its window ends at 3601 *)
ValidityWindowWitness ==
    \E a \in Attempts :
       /\ HasSignedProof(a)
       /\ attempts[a].builtAt = Some(1)
       /\ SignedProofOf(a).validBefore = <<"3", "6", "0", "1">>

(***************************************************************************)
(* C14: when a wallet key is configured and the chain of the request has   *)
(* no signing domain in the registry, the attempt fails before any network *)
(* call: no verify and no settle request is sent, nothing is raised, and   *)
(* pay returns success = false with a message that names the network.      *)
(***************************************************************************)
UnknownDomainFailsBeforeNetwork ==
    \A a \in Attempts :
       UnknownDomain(a) =>
          /\ attempts[a].sent = <<>>
          /\ attempts[a].received = <<>>
          /\ attempts[a].state = "FAILED"
          /\ ~attempts[a].raised.present
          /\ attempts[a].result.present
          /\ attempts[a].result.value.success = FALSE
          /\ attempts[a].result.value.error
                = "No EIP-712 domain for network: " \o NetworkOf(a)

(* pay was called for eip155:1 on a client with a wallet key *)
UnknownDomainWitness ==
    \E a \in Attempts :
       /\ UnknownDomain(a)
       /\ NetworkOf(a) = "eip155:1"
       /\ attempts[a].result.value.error = "No EIP-712 domain for network: eip155:1"

(***************************************************************************)
(* C15: with two pay() calls in flight on one client, under every          *)
(* interleaving of their verify and settle responses, the settle request   *)
(* of each attempt carries the settlement token and the commission of its  *)
(* own verify response and the payload wrapper of its own verify request,  *)
(* and what each attempt has sent and returned is what pay does when run   *)
(* alone on that attempt's request, clock reading, random bytes and        *)
(* responses.                                                              *)
(***************************************************************************)
AttemptsIsolated ==
    \A a \in Attempts :
       Called(a) =>
          /\ LET alone == RunAlone(client, attempts[a].request.value,
                                   attempts[a].builtAt.value, RandomOf(a),
                                   attempts[a].received)
             IN  /\ alone.kind \in {"send", "return"}
                 /\ alone.kind = "send" =>
                       /\ ~attempts[a].result.present
                       /\ attempts[a].sent # <<>>
                       /\ attempts[a].sent[Len(attempts[a].sent)] = alone.request
                 /\ alone.kind = "return" => attempts[a].result = Some(alone.value)
          /\ Len(attempts[a].sent) = 2 =>
                /\ attempts[a].sent[2].body.settlementToken
                      = attempts[a].received[1].body.value.settlementToken
                /\ attempts[a].sent[2].body.commission
                      = attempts[a].received[1].body.value.commission
                /\ attempts[a].sent[2].body.payload = attempts[a].sent[1].body.payload
                /\ attempts[a].sent[2].body.payload.resource
                      = attempts[a].request.value.resource
          /\ (attempts[a].result.present /\ attempts[a].result.value.success) =>
                /\ attempts[a].result.value.txHash
                      = attempts[a].received[2].body.value.transaction
                /\ attempts[a].result.value.grossAmount
                      = Coalesce(CommissionMember(
                                    attempts[a].received[1].body.value.commission,
                                    "grossAmount"), "0")

(* both attempts wait for their settle response at once, for different     *)
(* chains and with different settlement tokens                             *)
AttemptsIsolatedWitness ==
    /\ attempts["A"].state = "SETTLE_SENT"
    /\ attempts["B"].state = "SETTLE_SENT"
    /\ attempts["A"].request.value.network # attempts["B"].request.value.network
    /\ attempts["A"].sent[2].body.settlementToken = "tokA"
    /\ attempts["B"].sent[2].body.settlementToken = "tokB"

(***************************************************************************)
(* C19 as stated: no nonce is ever reused; any two signed proofs built by  *)
(* the client carry distinct nonces.                                       *)
(***************************************************************************)
NoncesNeverReused ==
    \A a, b \in Attempts :
       (a # b /\ HasSignedProof(a) /\ HasSignedProof(b))
       => SignedProofOf(a).nonce # SignedProofOf(b).nonce

(***************************************************************************)
(* C19 amended: every signed proof carries a nonce generated for it alone, *)
(* "0x" followed by the 64 hex digits of 32 bytes drawn from the random    *)
(* source when the proof is built (one draw per proof, none kept or        *)
(* copied); two proofs carry the same nonce exactly when the random source *)
(* returned the same bytes for both.                                       *)
(***************************************************************************)
NonceFreshlyDrawnPerProof ==
    /\ Cardinality({a \in Attempts : attempts[a].drawIndex.present}) = Len(draws)
    /\ \A a \in Attempts :
          HasSignedProof(a) =>
             /\ attempts[a].drawIndex.present
             /\ attempts[a].drawIndex.value \in 1..Len(draws)
             /\ SignedProofOf(a).nonce = "0x" \o Str(ToHex(RandomOf(a), 32))
             /\ Len(SignedProofOf(a).nonce) = 66
             /\ SignedProofOf(a).signature.message.nonce = SignedProofOf(a).nonce
    /\ \A a, b \in Attempts :
          (a # b /\ HasSignedProof(a) /\ HasSignedProof(b))
          => /\ attempts[a].drawIndex # attempts[b].drawIndex
             /\ (SignedProofOf(a).nonce = SignedProofOf(b).nonce)
                   <=> (RandomOf(a) = RandomOf(b))

(* two proofs built in the same second for the same payee, amount and      *)
(* chain, from two draws that differ                                       *)
NonceFreshlyDrawnWitness ==
    /\ HasSignedProof("A")
    /\ HasSignedProof("B")
    /\ attempts["A"].request = attempts["B"].request
    /\ attempts["A"].builtAt = attempts["B"].builtAt
    /\ draws = <<0, 1>>
    /\ SignedProofOf("A").nonce # SignedProofOf("B").nonce

(***************************************************************************)
(* C16: usdToBaseUnits maps every non-negative decimal string to the       *)
(* decimal numeral, without leading zeros ("0" for zero), of its value     *)
(* times 10^6, an empty integer part counting as 0 and the fraction digits *)
(* beyond the sixth being dropped; so "10.00" gives "10000000", "0.01"     *)
(* gives "10000", "0.000001" gives "1" and "0" gives "0".                  *)
(***************************************************************************)
DecimalToBaseUnits ==
    (baseUnits.present /\ IsUnsignedDecimal(usdAmount)) =>
       /\ AllDigits(baseUnits.value)
       /\ baseUnits.value # <<>>
       /\ baseUnits.value = <<"0">> \/ Head(baseUnits.value) # "0"
       /\ DigitsToNat(baseUnits.value) = MicroUnits(usdAmount)
       /\ usdAmount = <<"1", "0", ".", "0", "0">>
             => Str(baseUnits.value) = "10000000"
       /\ usdAmount = <<"0", ".", "0", "1">> => Str(baseUnits.value) = "10000"
       /\ usdAmount = <<"0", ".", "0", "0", "0", "0", "0", "1">>
             => Str(baseUnits.value) = "1"
       /\ usdAmount = <<"0">> => Str(baseUnits.value) = "0"

(* ".0000019": an empty integer part and a seventh fraction digit *)
DecimalToBaseUnitsWitness ==
    /\ baseUnits.present
    /\ usdAmount = <<".", "0", "0", "0", "0", "0", "1", "9">>
    /\ baseUnits.value = <<"1">>

(***************************************************************************)
(* C17: every failure of balance, history, setLimits, register or health   *)
(* (the fetch rejects, answers with a non-success status, or answers with  *)
(* a body that does not decode) is raised as a PayBotApiError; for a       *)
(* non-success status it carries the server's code or "HTTP_ERROR", the    *)
(* status and the server's details; for a rejected fetch it carries the    *)
(* code "NETWORK_ERROR" and the status 0.                                  *)
(***************************************************************************)
ApiFailuresRaisePayBotApiError ==
    ApiFailed =>
       /\ api.pc = "raised"
       /\ api.thrown.present
       /\ api.thrown.value.type = "PayBotApiError"
       /\ api.outcome.value.kind = "reject" =>
             /\ api.thrown.value.code = "NETWORK_ERROR"
             /\ api.thrown.value.statusCode = 0
       /\ (api.outcome.value.kind = "response"
           /\ api.outcome.value.status \notin 200..299) =>
             /\ api.thrown.value.statusCode = api.outcome.value.status
             /\ api.thrown.value.code
                   = IF api.outcome.value.body.kind = "object"
                        /\ ~Nullish(api.outcome.value.body.value.code)
                     THEN api.outcome.value.body.value.code
                     ELSE "HTTP_ERROR"

HeaderTermsWheneverBodyFails ==
    (/\ FirstIs402
     /\ ~HasNestedTerms(firstResponse.value)
     /\ ~(/\ firstResponse.value.body.kind = "object"
          /\ Truthy(firstResponse.value.body.value.amount)
          /\ TruthyString(firstResponse.value.body.value.payTo))
     /\ firstResponse.value.headers.XPaymentAmount \notin {nullChars, <<>>}
     /\ TruthyString(firstResponse.value.headers.XPaymentAddress)) =>
       /\ Terms.present
       /\ Terms.value.amount = firstResponse.value.headers.XPaymentAmount
       /\ Terms.value.payTo = firstResponse.value.headers.XPaymentAddress
       /\ \/ payCalls >= 1
          \/ /\ hpc = "raised"
             /\ hThrown = Some(LimitError(Terms.value, hconfig.value.maxAutoPay))

(* C21: whenever the handler has invoked client.pay, the amount and the    *)
(* payee it extracted were both carried by the challenge: by a nested      *)
(* paymentRequirements object holding both, or else by the top-level       *)
(* amount and payTo, or else by the two headers; no payment is invoked     *)
(* with a payee or an amount the challenge did not carry.                  *)
PaidTermsWereInChallenge ==
    (hconfig.present /\ payCalls >= 1) =>
       LET r == firstResponse.value
           nestedBoth == /\ HasNestedTerms(r)
                         /\ r.body.value.paymentRequirements.value.amount.t # "undefined"
                         /\ ~Nullish(r.body.value.paymentRequirements.value.payTo)
       IN  \/ /\ nestedBoth
              /\ Terms.value.amount = r.body.value.paymentRequirements.value.amount.s
              /\ Terms.value.payTo = r.body.value.paymentRequirements.value.payTo
           \/ /\ ~nestedBoth
              /\ HasTopLevelTerms(r)
              /\ Terms.value.amount = r.body.value.amount.s
              /\ Terms.value.payTo = r.body.value.payTo
           \/ /\ ~nestedBoth
              /\ ~HasTopLevelTerms(r)
              /\ HasHeaderTerms(r)
              /\ Terms.value.amount = r.headers.XPaymentAmount
              /\ Terms.value.payTo = r.headers.XPaymentAddress

(* C22: the settle envelope is built from the verify exchange: its         *)
(* requirements are the modifiedRequirements of the verify response when   *)
(* it returned any and otherwise the requirements sent to verify, its      *)
(* commission is the commission of the verify response, and its payload    *)
(* wrapper, the proof included, is the one sent to verify.                 *)
SettleBuiltFromVerify ==
    (Len(sent) >= 2) =>
       LET verify     == sent[1].body
           settle     == sent[2].body
           verifyData == received[1].body.value
       IN  /\ IsVerify(sent[1]) /\ IsSettle(sent[2])
           /\ settle.requirements =
                 IF verifyData.modifiedRequirements.present
                 THEN verifyData.modifiedRequirements.value
                 ELSE verify.requirements
           /\ settle.commission = verifyData.commission
           /\ settle.payload = verify.payload
           /\ settle.payload.payload = verify.payload.payload
           /\ settle.settlementToken = verifyData.settlementToken

(* a settle request went out after a verify response that returned         *)
(* modified requirements and a commission breakdown                        *)
SettleBuiltFromVerifyWitness ==
    /\ Len(sent) >= 2
    /\ received[1].body.value.modifiedRequirements.present
    /\ received[1].body.value.commission.present
    /\ sent[2].body.requirements # sent[1].body.requirements
    /\ sent[2].body.requirements.payTo = "0xFacilitatorPayee"

(* C23: the retried request is the original one with two headers set: the  *)
(* same URL, the same init members other than headers (method, body), each *)
(* original header kept with its value, X-Payment-Proof set to the         *)
(* payment's transaction reference ("" when none was returned) and         *)
(* X-Payment-Facilitator set to "paybot"; the url and init the caller      *)
(* passed are as they were passed.                                         *)
RetryIsOriginalPlusTwoHeaders ==
    (Len(resourceLog) = 2) =>
       LET original == resourceLog[1]
           retry    == resourceLog[2]
           before   == IF original.init.present THEN original.init.value.headers ELSE <<>>
           after    == retry.init.value.headers
           added    == {"X-Payment-Proof", "X-Payment-Facilitator"}
       IN  /\ retry.url = original.url
           /\ retry.init.present
           /\ IF original.init.present
              THEN /\ DOMAIN retry.init.value = DOMAIN original.init.value
                   /\ \A k \in DOMAIN original.init.value \ {"headers"} :
                         retry.init.value[k] = original.init.value[k]
              ELSE DOMAIN retry.init.value = {"headers"}
           /\ DOMAIN after = DOMAIN before \cup added
           /\ \A n \in DOMAIN before \ added : after[n] = before[n]
           /\ after["X-Payment-Proof"] = Coalesce(payResult.value.txHash, "")
           /\ after["X-Payment-Facilitator"] = "paybot"
           /\ hcall.value = original

(* a POST with an Authorization header was retried after a payment that    *)
(* returned a transaction reference                                        *)
RetryIsOriginalWitness ==
    /\ Len(resourceLog) = 2
    /\ resourceLog[1].init.present
    /\ resourceLog[1].init.value.method = "POST"
    /\ resourceLog[2].init.value.method = "POST"
    /\ resourceLog[2].init.value.headers["Authorization"] = "Bearer caller-token"
    /\ resourceLog[2].init.value.headers["X-Payment-Proof"] = "0xTX1"

(* C24: the handler invokes client.pay only when the extracted amount and  *)
(* the configured ceiling are both numbers that are not negative and the   *)
(* amount, in dollars, is not above the ceiling: an amount that is no      *)
(* number or is negative, or a ceiling that is no number, never leads to   *)
(* a payment.                                                              *)
PaidOnlyWithinWellFormedCeiling ==
    (hconfig.present /\ payCalls >= 1) =>
       LET amount  == Number(Terms.value.amount)
           ceiling == Number(hconfig.value.maxAutoPay)
       IN  /\ ~amount.nan
           /\ amount.mant >= 0
           /\ ~ceiling.nan
           /\ ceiling.mant >= 0
           /\ ~GreaterThan(DivMillion(amount), ceiling)

(* C26: when the handler pays a challenge whose amount is a string of      *)
(* digits, a whole number of base units, the amount of the verify          *)
(* requirements is that number written in decimal, and so is the value of  *)
(* the proof when the proof is signed.                                     *)
BaseUnitsRoundTrip ==
    (/\ hconfig.present
     /\ payCalls >= 1
     /\ AllDigits(Terms.value.amount)
     /\ sent # <<>>) =>
       /\ sent[1].body.requirements.amount = NatToChars(DigitsToNat(Terms.value.amount))
       /\ sent[1].body.payload.payload.kind = "signed" =>
             sent[1].body.payload.payload.value
                = NatToChars(DigitsToNat(Terms.value.amount))

(* a challenge of 9019 base units, quoted with a leading zero, was paid    *)
(* with a signed proof                                                     *)
BaseUnitsRoundTripWitness ==
    /\ hconfig.present
    /\ payCalls = 1
    /\ Terms.value.amount = <<"0", "9", "0", "1", "9">>
    /\ sent # <<>>
    /\ sent[1].body.requirements.amount = <<"9", "0", "1", "9">>
    /\ sent[1].body.payload.payload.kind = "signed"
    /\ sent[1].body.payload.payload.value = <<"9", "0", "1", "9">>

(* C25: when pay() is called for a registered chain without a token        *)
(* contract, the asset of the verify requirements names the token contract *)
(* registered for that chain, which is the verifying contract of the       *)
(* domain the proof is signed under.                                       *)
DefaultTokenBelongsToNetwork ==
    (/\ sent # <<>>
     /\ frame.active
     /\ frame.request.tokenContract = undefined
     /\ frame.network \in DOMAIN NETWORKS) =>
       /\ sent[1].body.requirements.asset
             = frame.network \o "/erc20:" \o NETWORKS[frame.network].usdcAddress
       /\ sent[1].body.payload.payload.kind = "signed" =>
             sent[1].body.payload.payload.signature.domain.verifyingContract
                = NETWORKS[frame.network].usdcAddress
       /\ sent[1].body.payload.payload.kind = "signed" =>
             sent[1].body.requirements.asset
                = frame.network \o "/erc20:"
                  \o sent[1].body.payload.payload.signature.domain.verifyingContract

=============================================================================
